---- MODULE Spec2Model ----
(***************************************************************************)
(* Model of the Packlyze bundle analyzer (src/src/analyzer/packlyze.ts),   *)
(* of its history log (src/unnamed/part_002) and of the analyze command    *)
(* (src/src/cli.ts, src/src/config/loader.ts).                             *)
(*                                                                         *)
(* A stats document is the value JSON.parse returns.  Optional fields are  *)
(* written as sequences of length 0 (undefined) or 1 (the value), an array *)
(* field as a record [kind, items] where kind tells whether the field is   *)
(* absent, present but not an array, or an array.  A percentage is the     *)
(* rational value of the floating-point expression, a pair [num, den] in   *)
(* lowest terms; rounding error of the last binary digit is not modelled.  *)
(* Names and reasons are strings, read character by character with SubSeq. *)
(***************************************************************************)
EXTENDS Integers, Sequences, FiniteSets, TLC

VARIABLES
    pc,         \* "new", then "failed" or "loaded", then "analyzed" or "threw"
    statsFile,  \* the file at the path given to the constructor
    statsData,  \* the analyzer's parsed document
    error,      \* message of the error thrown by the last call, if any
    result,     \* the AnalysisResult of the last analyze(), if any
    platform,   \* "posix" or "win32": which path.basename the process runs
    modulePath, \* the parts of the path handed to extractPackageName
    packageName, \* what that call returned
    clock,      \* the instant new Date() reads
    historyFile, \* .packlyze/history.json: absent, unreadable, or a log of entries
    saving,     \* per process: the log a saveHistoryEntry call in progress has loaded
    gitHead,    \* what `git rev-parse` prints in the project, if anything
    saved,      \* record of the calls made: how many, the entries written, in order
    cli         \* a run of `packlyze analyze`: its inputs, where it stands, what it wrote

history == <<historyFile, saving, gitHead, saved>>

vars == <<pc, statsFile, statsData, error, result, platform, modulePath, packageName, clock,
          history, cli>>

(***************************************************************************)
(* Bounds of the input space                                               *)
(***************************************************************************)
MaxErrors == 2

MaxSize == 2

MaxChunkModules == 2

MaxModules == 2

MaxOccurrences == 2

\* a bound on the saveHistoryEntry calls of a run, above the cap of the log
MaxSaves == 102

\* a bound on the calls of a run in which calls overlap
MaxOverlappingSaves == 3

(***************************************************************************)
(* JSON values                                                             *)
(***************************************************************************)
None == <<>>

Some(x) == <<x>>

\* `v || 0` for an optional number
OrZero(v) == IF v = None THEN 0 ELSE v[1]

\* truthiness of an optional number (undefined and 0 are falsy)
Truthy(v) == v # None /\ v[1] # 0

Absent == [kind |-> "absent", items |-> <<>>]

NotArray == [kind |-> "other", items |-> <<>>]

Arr(s) == [kind |-> "array", items |-> s]

\* Array.isArray(f)
IsArray(f) == f.kind = "array"

\* `f || []` : an absent field reads as [], another value as itself
OrEmpty(f) == IF f.kind = "absent" THEN Arr(<<>>) ELSE f

SeqsUpTo(S, n) == UNION {[1..k -> S] : k \in 0..n}

Max(a, b) == IF a >= b THEN a ELSE b

\* s.reduce((a, b) => a + b, 0), summed by halves
RECURSIVE SumSeq(_)
SumSeq(s) ==
    IF Len(s) = 0 THEN 0
    ELSE IF Len(s) = 1 THEN s[1]
    ELSE SumSeq(SubSeq(s, 1, Len(s) \div 2)) + SumSeq(SubSeq(s, Len(s) \div 2 + 1, Len(s)))

Min(a, b) == IF a <= b THEN a ELSE b

SetMax(S) == CHOOSE x \in S : \A y \in S : y <= x

SetMin(S) == CHOOSE x \in S : \A y \in S : x <= y

\* a sequence with every entry computed, once
Eager(s) == SubSeq(s, 1, Len(s))

\* the members of a set of positive indices, in ascending order
Ascending(S) ==
    LET top == IF S = {} THEN 0 ELSE SetMax(S)
        place == Eager([i \in 1..top |-> Cardinality({j \in S : j <= i})])
    IN  Eager([k \in 1..Cardinality(S) |-> CHOOSE i \in S : place[i] = k])

\* the first n entries: s.slice(0, n)
Take(s, n) == SubSeq(s, 1, Min(Len(s), n))

\* Array.prototype.sort with a comparator (a, b) => key of b - key of a: a
\* stable sort, largest key first.  keys[i] is the key of s[i], rank[i] the
\* place entry i ends at.
StableSortDesc(s, keys) ==
    LET n == Len(s)
        entries == Eager(s)
        key == Eager(keys)
        rank == Eager([i \in 1..n |->
                          Cardinality({j \in 1..n : key[j] > key[i]})
                          + Cardinality({j \in 1..(i - 1) : key[j] = key[i]}) + 1])
        at == Eager([k \in 1..n |-> CHOOSE i \in 1..n : rank[i] = k])
    IN  Eager([k \in 1..n |-> entries[at[k]]])

\* texts of the messages the analyzer raises
InvalidJSONText == "Invalid JSON in stats file"

InvalidStatsText == "Invalid stats"

BuildFailedText == "Webpack build failed"

NoContentText == "Stats file contains no modules or assets"

TypeErrorText == "TypeError"

SyntaxErrorText == "SyntaxError"

\* text of a webpack error that happens to quote "Invalid stats"
QuotedInvalidStats == "plugin said: Invalid stats"

\* String.prototype.includes(InvalidStatsText) on one text fragment
IncludesInvalidStats(t) == t \in {InvalidStatsText, QuotedInvalidStats}

(***************************************************************************)
(* Ingestion: loadStats and validateStats                                  *)
(***************************************************************************)
\* outcome of a call that may throw: the message is a sequence of text
\* fragments, the first being the text the message starts with
Returned == [threw |-> FALSE, message |-> <<>>]

Thrown(msg) == [threw |-> TRUE, message |-> msg]

\* the entries `errors.slice(0, 3)` keeps
FirstThree(s) == SubSeq(s, 1, IF Len(s) < 3 THEN Len(s) ELSE 3)

\* `e.message || 'Unknown error'` for each listed build error
ErrorMessages(s) == [i \in 1..Len(s) |-> IF s[i].message = None THEN "Unknown error" ELSE s[i].message[1]]

\* chunks.filter(c => Array.isArray(c.modules) && c.modules.length > 0).length
ChunksWithModules(chunks) == Cardinality({i \in 1..Len(chunks) : IsArray(chunks[i].modules) /\ Len(chunks[i].modules.items) > 0})

\* a module or asset entry the validation loop rejects
RejectedEntry(e) ==
    \/ e.tag = "str" /\ e.name # Some("")
    \/ e.tag = "obj" /\ e.size # None /\ e.size[1] < 0

validateStats(d) ==
    LET errors == IF IsArray(d.errors) THEN d.errors.items ELSE <<>>
        hasAssets == IsArray(d.assets)
        hasModules == IsArray(d.modules)
        hasChunks == IsArray(d.chunks)
        assetsCount == IF hasAssets THEN Len(d.assets.items) ELSE 0
        modulesCount == IF hasModules THEN Len(d.modules.items) ELSE 0
        chunks == IF hasChunks THEN d.chunks.items ELSE <<>>
    IN  IF d.json = "scalar" THEN Thrown(<<InvalidStatsText>>)
        ELSE IF Len(errors) > 0
             THEN IF \E i \in 1..Len(FirstThree(errors)) : errors[i].tag = "null"
                  THEN Thrown(<<TypeErrorText>>)
                  ELSE Thrown(<<BuildFailedText>> \o ErrorMessages(FirstThree(errors)))
        ELSE IF ~hasAssets /\ ~hasModules /\ ~hasChunks THEN Thrown(<<InvalidStatsText>>)
        ELSE IF \E i \in 1..Len(chunks) : chunks[i].tag = "null" THEN Thrown(<<TypeErrorText>>)
        ELSE IF assetsCount = 0 /\ modulesCount = 0 /\ ChunksWithModules(chunks) = 0
             THEN Thrown(<<NoContentText>>)
        ELSE IF hasModules /\ \E i \in 1..modulesCount : RejectedEntry(d.modules.items[i])
             THEN Thrown(<<InvalidStatsText>>)
        ELSE IF hasAssets /\ \E i \in 1..assetsCount : RejectedEntry(d.assets.items[i])
             THEN Thrown(<<InvalidStatsText>>)
        ELSE Returned

\* the catch block of loadStats: an error whose message includes
\* 'Invalid stats' is rethrown, any other is wrapped
Rethrow(msg) ==
    IF \E i \in 1..Len(msg) : IncludesInvalidStats(msg[i])
    THEN Thrown(msg)
    ELSE Thrown(<<InvalidJSONText>> \o msg)

loadStats(d) ==
    IF d.json = "invalid" THEN Rethrow(<<SyntaxErrorText>>)
    ELSE LET v == validateStats(d)
         IN  IF v.threw THEN Rethrow(v.message)
             ELSE IF d.chunks.kind = "other" THEN Rethrow(<<TypeErrorText>>)
             ELSE Returned

(***************************************************************************)
(* Extraction: extractBundleStats and the totals it relies on              *)
(***************************************************************************)
\* property reads on a module entry: a string has none of the properties
PropName(m) == IF m.tag = "obj" THEN m.name ELSE None

PropSize(m) == IF m.tag = "obj" THEN m.size ELSE None

PropGzip(m) == IF m.tag = "obj" THEN m.gzipSize ELSE None

\* `m.name || 'unknown'`
NameOrUnknown(n) == IF n = None \/ n = Some("") THEN "unknown" ELSE n[1]

\* `typeof r === 'string' ? r : r.moduleName ?? ''`
ReasonStr(r) == IF r.text = None THEN "" ELSE r.text[1]

\* `Array.isArray(reasons) ? reasons.map(...) : []`
MapReasons(f) == IF IsArray(f) THEN [i \in 1..Len(f.items) |-> ReasonStr(f.items[i])] ELSE <<>>

RECURSIVE GCD(_, _)
GCD(a, b) == IF b = 0 THEN a ELSE GCD(b, a % b)

Abs(n) == IF n < 0 THEN -n ELSE n

\* the value n / d (d > 0) of a floating-point computation, in lowest terms
Fraction(n, d) == [num |-> n \div GCD(Abs(n), d), den |-> d \div GCD(Abs(n), d)]

Zero == Fraction(0, 1)

\* the quotient truncated to a whole number
PercentageTruncated(size, totalSize) ==
    IF totalSize > 0 THEN Fraction((size * 100) \div totalSize, 1) ELSE Zero

\* the share left as a ratio
PercentageUnscaled(size, totalSize) == IF totalSize > 0 THEN Fraction(size, totalSize) ELSE Zero

\* totalSize > 0 ? ((m.size || 0) / totalSize) * 100 : 0
Percentage(size, totalSize) == IF totalSize > 0 THEN Fraction(size * 100, totalSize) ELSE Zero

\* the module objects built from the top-level modules array
TopLevelModules(items) ==
    [i \in 1..Len(items) |->
        [name |-> NameOrUnknown(PropName(items[i])),
         size |-> OrZero(PropSize(items[i])),
         gzipSize |-> PropGzip(items[i]),
         percentage |-> Zero,
         reasons |-> IF items[i].tag = "obj" THEN MapReasons(items[i].reasons) ELSE <<>>]]

\* all entries of the chunks' modules arrays, in iteration order
RECURSIVE ChunkModuleEntries(_)
ChunkModuleEntries(chunks) ==
    IF chunks = <<>> THEN <<>>
    ELSE (IF IsArray(Head(chunks).modules) THEN Head(chunks).modules.items ELSE <<>>)
         \o ChunkModuleEntries(Tail(chunks))

\* Array.from(new Set(s)): first occurrences, in order
RECURSIVE Distinct(_)
Distinct(s) ==
    IF s = <<>> THEN <<>>
    ELSE LET init == Distinct(SubSeq(s, 1, Len(s) - 1))
             x == s[Len(s)]
         IN  IF \E i \in 1..Len(init) : init[i] = x THEN init ELSE Append(init, x)

\* existingReasons.add(reasonStr) for each non-empty reason
RECURSIVE AddReasons(_, _)
AddReasons(existing, new) ==
    IF new = <<>> THEN existing
    ELSE LET x == Head(new)
             next == IF x = "" \/ (\E i \in 1..Len(existing) : existing[i] = x)
                     THEN existing ELSE Append(existing, x)
         IN  AddReasons(next, Tail(new))

\* the update of an entry already in moduleMap
MergeModule(existing, moduleSize, moduleGzipSize, moduleReasons) ==
    [existing EXCEPT
        !.size = Max(existing.size, moduleSize),
        !.gzipSize = IF Truthy(moduleGzipSize)
                     THEN (IF Truthy(existing.gzipSize)
                           THEN Some(Max(existing.gzipSize[1], moduleGzipSize[1]))
                           ELSE moduleGzipSize)
                     ELSE existing.gzipSize,
        !.reasons = IF IsArray(moduleReasons) /\ Len(moduleReasons.items) > 0
                    THEN AddReasons(Distinct(existing.reasons), MapReasons(moduleReasons))
                    ELSE existing.reasons]

\* one step of the chunk.modules.forEach callback on moduleMap (kept in
\* insertion order, as a Map is)
MapStep(moduleMap, m) ==
    LET moduleName == IF m.tag = "str" THEN m.name[1] ELSE NameOrUnknown(m.name)
        moduleSize == IF m.tag = "str" THEN 0 ELSE OrZero(m.size)
        moduleGzipSize == IF m.tag = "str" THEN None ELSE m.gzipSize
        moduleReasons == IF m.tag = "str" THEN Arr(<<>>) ELSE m.reasons
        at == {i \in 1..Len(moduleMap) : moduleMap[i].name = moduleName}
    IN  IF at = {}
        THEN Append(moduleMap, [name |-> moduleName, size |-> moduleSize,
                                gzipSize |-> moduleGzipSize, percentage |-> Zero,
                                reasons |-> MapReasons(moduleReasons)])
        ELSE [i \in 1..Len(moduleMap) |->
                IF i \in at
                THEN MergeModule(moduleMap[i], moduleSize, moduleGzipSize, moduleReasons)
                ELSE moduleMap[i]]

RECURSIVE FoldModules(_, _)
FoldModules(moduleMap, entries) ==
    IF entries = <<>> THEN moduleMap
    ELSE FoldModules(MapStep(moduleMap, Head(entries)), Tail(entries))

\* Array.from(moduleMap.values()) after the walk over the chunks
ChunkModules(d) == FoldModules(<<>>, ChunkModuleEntries(OrEmpty(d.chunks).items))

\* the first-seen walk of getTotalSize / getTotalGzipSize over the chunk
\* modules: an entry counts only if its `m.name || 'unknown'` is new
RECURSIVE SeenWalk(_, _, _)
SeenWalk(entries, seenModules, gzip) ==
    IF entries = <<>> THEN 0
    ELSE LET m == Head(entries)
             moduleName == NameOrUnknown(PropName(m))
             value == IF gzip THEN OrZero(PropGzip(m)) ELSE OrZero(PropSize(m))
         IN  IF moduleName \in seenModules
             THEN SeenWalk(Tail(entries), seenModules, gzip)
             ELSE value + SeenWalk(Tail(entries), seenModules \cup {moduleName}, gzip)

SumSizes(items) == SumSeq([i \in 1..Len(items) |-> OrZero(PropSize(items[i]))])

SumGzip(items) == SumSeq([i \in 1..Len(items) |-> OrZero(PropGzip(items[i]))])

HasTopLevelModules(d) == IsArray(d.modules) /\ Len(d.modules.items) > 0

getTotalSize(d) ==
    LET assetSize == SumSizes(OrEmpty(d.assets).items)
        chunks == OrEmpty(d.chunks).items
        moduleSize == SeenWalk(ChunkModuleEntries(chunks), {}, FALSE)
        chunkSize == SumSizes(chunks)
    IN  IF assetSize = 0
        THEN IF HasTopLevelModules(d) THEN SumSizes(d.modules.items)
             ELSE IF moduleSize > 0 THEN moduleSize
             ELSE IF chunkSize > 0 THEN chunkSize
             ELSE assetSize
        ELSE assetSize

getTotalGzipSize(d) ==
    LET assetGzipSize == SumGzip(OrEmpty(d.assets).items)
        chunks == OrEmpty(d.chunks).items
        moduleGzipSize == SeenWalk(ChunkModuleEntries(chunks), {}, TRUE)
    IN  IF assetGzipSize = 0
        THEN IF HasTopLevelModules(d) THEN SumGzip(d.modules.items)
             ELSE IF moduleGzipSize > 0 THEN moduleGzipSize
             ELSE SumGzip(chunks)
        ELSE assetGzipSize

\* the keys of the comparators: b.size - a.size, b.totalSize - a.totalSize
Sizes(s) == [i \in 1..Len(s) |-> s[i].size]

TotalSizes(s) == [i \in 1..Len(s) |-> s[i].totalSize]

\* a sort by size that puts the later of two equal entries first
SortBySizeReversingTies(s) ==
    StableSortDesc([i \in 1..Len(s) |-> s[Len(s) + 1 - i]], [i \in 1..Len(s) |-> s[Len(s) + 1 - i].size])

\* modules.sort((a, b) => b.size - a.size): a stable sort, largest first
SortBySize(s) == StableSortDesc(s, Sizes(s))

\* no modelled chunk carries a name, so `chunk.name || `chunk-${chunk.id}``
\* is always the generated name
extractChunks(d) ==
    LET chunks == OrEmpty(d.chunks).items
    IN  [i \in 1..Len(chunks) |->
            [id |-> chunks[i].id,
             name |-> "chunk-" \o ToString(chunks[i].id),
             size |-> OrZero(chunks[i].size),
             gzipSize |-> chunks[i].gzipSize,
             modules |-> IF IsArray(chunks[i].modules)
                         THEN [j \in 1..Len(chunks[i].modules.items) |-> PropName(chunks[i].modules.items[j])]
                         ELSE <<>>]]

\* every chunk not flagged as non-initial counts
getInitialBundleSizeLoose(d) ==
    LET chunks == OrEmpty(d.chunks).items
    IN  SumSeq([i \in 1..Len(chunks) |->
                    IF chunks[i].initial # Some(FALSE) THEN OrZero(chunks[i].size) ELSE 0])

getInitialBundleSize(d) ==
    LET chunks == OrEmpty(d.chunks).items
    IN  SumSeq([i \in 1..Len(chunks) |->
                    IF chunks[i].initial = Some(TRUE) THEN OrZero(chunks[i].size) ELSE 0])

extractBundleStats(d) ==
    LET modules == IF HasTopLevelModules(d) THEN TopLevelModules(d.modules.items) ELSE ChunkModules(d)
        moduleSum == SumSeq([i \in 1..Len(modules) |-> modules[i].size])
        gzipSum == SumSeq([i \in 1..Len(modules) |-> OrZero(modules[i].gzipSize)])
        totalSize == IF getTotalSize(d) # 0 THEN getTotalSize(d) ELSE moduleSum
        withPercentage == [i \in 1..Len(modules) |->
                              [modules[i] EXCEPT !.percentage = Percentage(modules[i].size, totalSize)]]
    IN  [size |-> totalSize,
         gzipSize |-> IF getTotalGzipSize(d) # 0 THEN getTotalGzipSize(d) ELSE gzipSum,
         modules |-> SortBySize(withPercentage),
         chunks |-> extractChunks(d),
         isInitialBySize |-> getInitialBundleSize(d),
         isInitialByCount |-> Len(OrEmpty(d.assets).items)]

\* the reads that raise a TypeError during analyze(): a property read on a
\* null entry, or an array method on a field that is not an array
HasNull(items) == \E i \in 1..Len(items) : items[i].tag = "null"

NullReason(m) == m.tag = "obj" /\ IsArray(m.reasons) /\ HasNull(m.reasons.items)

AnalyzeThrows(d) ==
    LET entries == ChunkModuleEntries(OrEmpty(d.chunks).items)
    IN  \/ d.assets.kind = "other"
        \/ HasNull(OrEmpty(d.assets).items)
        \/ HasNull(entries)
        \/ IF HasTopLevelModules(d)
           THEN \/ HasNull(d.modules.items)
                \/ \E i \in 1..Len(d.modules.items) : NullReason(d.modules.items[i])
           ELSE \E i \in 1..Len(entries) : NullReason(entries[i])

(***************************************************************************)
(* Derived views: packages, duplicates, unused modules, chunks, advice     *)
(***************************************************************************)
\* the i-th character of a string
Char(s, i) == SubSeq(s, i, i)

\* the character class [/\\]
IsSlash(c) == c \in {"/", "\\"}

\* the character class \s, as far as the modelled texts use it
IsSpace(c) == c \in {" ", "\t"}

\* the last index of the run of characters outside Seps that starts at k
RunEnd(s, k, Seps) ==
    LET stops == {j \in k..Len(s) : Char(s, j) \in Seps}
    IN  IF stops = {} THEN Len(s) ELSE SetMin(stops) - 1

\* group 1 of modulePath.match(/node_modules[/\\](@[^/\\]+[/\\][^/\\]+|[^/\\]+)/)
\* at the leftmost place the pattern matches, None when it matches nowhere
NodeModulesMatch(s) ==
    LET starts == {i \in 1..(Len(s) - 13) :
                      /\ SubSeq(s, i, i + 11) = "node_modules"
                      /\ IsSlash(Char(s, i + 12))
                      /\ ~IsSlash(Char(s, i + 13))}
    IN  IF starts = {} THEN None
        ELSE LET b == SetMin(starts) + 13
                 e == RunEnd(s, b, {"/", "\\"})
                 scoped == /\ Char(s, b) = "@"
                           /\ e > b
                           /\ e + 2 <= Len(s)
                           /\ ~IsSlash(Char(s, e + 2))
             IN  Some(SubSeq(s, b, IF scoped THEN RunEnd(s, e + 2, {"/", "\\"}) ELSE e))

\* the match left as it was found
KeepSlashes(t) == t

\* .replace(/[/\\]/g, '/')
RECURSIVE ReplaceSlashes(_)
ReplaceSlashes(t) ==
    IF Len(t) = 0 THEN ""
    ELSE (IF IsSlash(Head(t)) THEN "/" ELSE Head(t)) \o ReplaceSlashes(Tail(t))

\* the separators path.basename splits at
PathSeparators == IF platform = "win32" THEN {"/", "\\"} ELSE {"/"}

\* path.basename(s) for a path without a drive letter: trailing separators
\* are dropped, then the text after the last separator is returned
Basename(s) ==
    LET named == {i \in 1..Len(s) : Char(s, i) \notin PathSeparators}
    IN  IF named = {} THEN ""
        ELSE LET e == SetMax(named)
                 breaks == {j \in 1..e : Char(s, j) \in PathSeparators}
             IN  SubSeq(s, IF breaks = {} THEN 1 ELSE SetMax(breaks) + 1, e)

extractPackageName(path) ==
    IF path = "" THEN None
    ELSE IF NodeModulesMatch(path) # None THEN Some(ReplaceSlashes(NodeModulesMatch(path)[1]))
    ELSE Some(Basename(path))

\* `v || 'unknown'` for a string or null
OrUnknown(v) == IF v = None \/ v = Some("") THEN "unknown" ELSE v[1]

\* the entries of a Map from keys to member lists, in insertion order; a
\* member is written as its index in the list the keys were taken from
GroupByKey(keys) ==
    LET n == Len(keys)
        firsts == Ascending({i \in 1..n : \A j \in 1..(i - 1) : keys[j] # keys[i]})
    IN  Eager([k \in 1..Len(firsts) |-> Ascending({i \in 1..n : keys[i] = keys[firsts[k]]})])

\* every group of two or more counts
AnyPaths(names) == TRUE

\* uniquePaths.size > 1
DistinctPaths(names) == Cardinality({names[i] : i \in 1..Len(names)}) > 1

findDuplicates(stats) ==
    LET modules == stats.modules
        keys == Eager([i \in 1..Len(modules) |-> OrUnknown(extractPackageName(modules[i].name))])
        groups == GroupByKey(keys)
        names(g) == [i \in 1..Len(g) |-> modules[g[i]].name]
        sizes(g) == [i \in 1..Len(g) |-> modules[g[i]].size]
        emitted == SelectSeq(groups, LAMBDA g : Len(g) > 1 /\ DistinctPaths(names(g)))
        duplicates == [k \in 1..Len(emitted) |->
                          [names |-> names(emitted[k]),
                           totalSize |-> SumSeq(sizes(emitted[k])),
                           savings |-> SumSeq(sizes(emitted[k]))
                                       - SetMin({sizes(emitted[k])[i] : i \in 1..Len(emitted[k])})]]
    IN  Take(StableSortDesc(duplicates, TotalSizes(duplicates)), 10)

analyzePackages(stats) ==
    LET all == stats.modules
        named == Ascending({i \in 1..Len(all) :
                               extractPackageName(all[i].name) \notin {None, Some("")}})
        modules == Eager([i \in 1..Len(named) |-> all[named[i]]])
        keys == Eager([i \in 1..Len(modules) |-> extractPackageName(modules[i].name)[1]])
        groups == GroupByKey(keys)
        packageTotalSize(g) == SumSeq([i \in 1..Len(g) |-> modules[g[i]].size])
        totalGzip(g) == SumSeq([i \in 1..Len(g) |-> IF Truthy(modules[g[i]].gzipSize)
                                                    THEN modules[g[i]].gzipSize[1] ELSE 0])
        packages == [k \in 1..Len(groups) |->
                        [name |-> keys[groups[k][1]],
                         totalSize |-> packageTotalSize(groups[k]),
                         gzipSize |-> IF totalGzip(groups[k]) > 0 THEN Some(totalGzip(groups[k])) ELSE None,
                         moduleCount |-> Len(groups[k]),
                         modules |-> [i \in 1..Len(groups[k]) |-> modules[groups[k][i]].name],
                         percentage |-> Percentage(packageTotalSize(groups[k]), stats.size)]]
    IN  Take(StableSortDesc(packages, TotalSizes(packages)), 20)

\* group 1 of reason.match(/([^\s]+\.(js|ts|jsx|tsx))/), None without a
\* match.  The match starts at the leftmost character that can start one and
\* extends, [^\s]+ being greedy, to the last extension it can reach; of the
\* alternatives, js is tried before jsx and ts before tsx, and the first to
\* match ends the pattern, so the match always ends in .js or .ts
ImportMatch(reason) ==
    LET n == Len(reason)
        Spaced(i, j) == \E k \in i..j : IsSpace(Char(reason, k))
        exts == {j \in 2..(n - 2) : Char(reason, j) = "." /\ SubSeq(reason, j + 1, j + 2) \in {"js", "ts"}}
        Reach(i) == {j \in exts : j > i /\ ~Spaced(i, j)}
        starts == {i \in 1..n : Reach(i) # {}}
    IN  IF starts = {} THEN None
        ELSE Some(SubSeq(reason, SetMin(starts), SetMax(Reach(SetMin(starts))) + 2))

\* reasonStr.includes('entry')
IncludesEntry(r) == \E i \in 1..(Len(r) - 4) : SubSeq(r, i, i + 4) = "entry"

\* the set the first pass of detectUnusedModules builds
importedModules(stats) ==
    LET modules == stats.modules
        reasons == UNION {{modules[i].reasons[k] : k \in 1..Len(modules[i].reasons)} : i \in 1..Len(modules)}
    IN  {ImportMatch(r)[1] : r \in {q \in reasons \ {"entry", "cjs require"} : ImportMatch(q) # None}}

isEntry(module) == \E k \in 1..Len(module.reasons) : IncludesEntry(module.reasons[k])

\* stats.chunks.some(chunk => chunk.modules.includes(module.name))
inChunk(stats, module) ==
    \E c \in 1..Len(stats.chunks) :
        \E j \in 1..Len(stats.chunks[c].modules) : stats.chunks[c].modules[j] = Some(module.name)

detectUnusedModules(stats) ==
    LET modules == stats.modules
        imported == importedModules(stats)
        flagged == Ascending({i \in 1..Len(modules) :
                                 /\ ~isEntry(modules[i])
                                 /\ modules[i].name \notin imported
                                 /\ modules[i].size > 0
                                 /\ inChunk(stats, modules[i])})
        unused == [k \in 1..Len(flagged) |->
                      [name |-> IF modules[flagged[k]].name = "" THEN "unknown" ELSE modules[flagged[k]].name,
                       size |-> modules[flagged[k]].size]]
    IN  Take(StableSortDesc(unused, Sizes(unused)), 20)

\* { id: 0, name: 'N/A', size: 0, modules: [] }
NoChunk == [id |-> 0, name |-> "N/A", size |-> 0, gzipSize |-> None, modules |-> <<>>]

\* chunkInfo && 'initial' in chunkInfo && chunkInfo.initial === true, for
\* the entry of stats.chunks that has this chunk's id
IsInitialChunk(stats, c) ==
    LET found == {i \in 1..Len(stats.chunks) : stats.chunks[i].id = c.id}
        chunkInfo == stats.chunks[SetMin(found)]
    IN  found # {} /\ "initial" \in DOMAIN chunkInfo /\ chunkInfo.initial = TRUE

\* the comparison without its guard
ImbalancedUnguarded(largestChunk, smallestChunk) ==
    largestChunk.size > smallestChunk.size * 10

\* smallestChunk.size > 0 && largestChunk.size > smallestChunk.size * 10
Imbalanced(largestChunk, smallestChunk) ==
    smallestChunk.size > 0 /\ largestChunk.size > smallestChunk.size * 10

\* the entries of s for which the flag at the same place is set
Pushed(s, flags) == [k \in 1..Len(Ascending({i \in 1..Len(s) : flags[i]})) |->
                        s[Ascending({i \in 1..Len(s) : flags[i]})[k]]]

analyzeChunks(stats) ==
    LET chunks == stats.chunks
        n == Len(chunks)
        totalChunkSize == SumSeq([i \in 1..n |-> chunks[i].size])
        totalModules == SumSeq([i \in 1..n |-> Len(chunks[i].modules)])
        sortedBySize == StableSortDesc(chunks, Sizes(chunks))
        largestChunk == sortedBySize[1]
        smallestChunk == sortedBySize[n]
        initialChunkSize == SumSeq([i \in 1..n |-> IF IsInitialChunk(stats, chunks[i])
                                                   THEN chunks[i].size ELSE 0])
    IN  IF n = 0
        THEN [averageChunkSize |-> Zero, averageModulesPerChunk |-> Zero,
              largestChunk |-> NoChunk, smallestChunk |-> NoChunk,
              initialChunkSize |-> 0, recommendations |-> <<>>]
        ELSE [averageChunkSize |-> Fraction(totalChunkSize, n),
              averageModulesPerChunk |-> Fraction(totalModules, n),
              largestChunk |-> largestChunk,
              smallestChunk |-> smallestChunk,
              initialChunkSize |-> initialChunkSize,
              recommendations |->
                  Pushed(<<"Average chunk size", "Many small chunks", "Initial chunk",
                           "Chunk size imbalance">>,
                         <<totalChunkSize > 500000 * n,
                           n > 20 /\ totalChunkSize < 50000 * n,
                           initialChunkSize > 500000,
                           Imbalanced(largestChunk, smallestChunk)>>)]

Recommendation(severity, about) == [severity |-> severity, about |-> about]

\* both gzip checks made on their own
GzipSeverityUnchained(gzipSize) ==
    IF gzipSize > 250000 THEN "warning"
    ELSE IF gzipSize > 500000 THEN "critical"
    ELSE "none"

\* stats.gzipSize > 500000 ? critical : stats.gzipSize > 250000 ? warning
GzipSeverity(gzipSize) ==
    IF gzipSize > 500000 THEN "critical"
    ELSE IF gzipSize > 250000 THEN "warning"
    ELSE "none"

generateRecommendations(stats) ==
    LET largeModules == {i \in 1..Len(stats.modules) :
                            stats.modules[i].percentage.num
                                > 5 * stats.modules[i].percentage.den}
        duplicates == findDuplicates(stats)
    IN  Pushed(<<Recommendation(GzipSeverity(stats.gzipSize), "Bundle size"),
                 Recommendation("warning", "Large modules"),
                 Recommendation("warning", "Duplicate modules"),
                 Recommendation("info", "High module count")>>,
               <<GzipSeverity(stats.gzipSize) # "none",
                 largeModules # {},
                 Len(duplicates) > 0,
                 Len(stats.modules) > 500>>)

\* String.prototype.includes
Includes(text, pattern) ==
    \E i \in 1..(Len(text) - Len(pattern) + 1) : SubSeq(text, i, i + Len(pattern) - 1) = pattern

\* typeof source === 'string' && (source.includes('module.exports') ||
\* source.includes('require('))
UsesCommonJS(om) ==
    /\ om.tag = "obj"
    /\ om.source # None
    /\ Includes(om.source[1], "module.exports") \/ Includes(om.source[1], "require(")

\* statsData.modules.find(om => om.name === name): the index of the first
\* entry of that name, 0 when there is none
FindByName(items, name) ==
    LET named == {k \in 1..Len(items) : PropName(items[k]) = Some(name)}
    IN  IF named = {} THEN 0 ELSE SetMin(named)

\* the modules of stats whose entry of the same name in the input's modules
\* array has a CommonJS source; the first 10 of them
detectTreeshakingIssues(d, stats) ==
    LET items == IF IsArray(d.modules) THEN d.modules.items ELSE <<>>
        commonJS == {k \in 1..Len(items) : UsesCommonJS(items[k])}
        modules == stats.modules
        flagged == IF commonJS = {} THEN <<>>
                   ELSE Ascending({i \in 1..Len(modules) :
                                      FindByName(items, modules[i].name) \in commonJS})
        issues == [k \in 1..Len(flagged) |->
                      modules[flagged[k]].name \o ": Uses CommonJS - reduces tree-shaking effectiveness"]
    IN  Take(issues, 10)

\* gzipSize * 0.83 cut to a whole number
BrotliTruncated(gzipSize) == (gzipSize * 83) \div 100

\* Math.round(gzipSize * 0.83) for gzipSize > 0: the nearest whole number,
\* a half rounded up
BrotliEstimate(gzipSize) == (gzipSize * 83 + 50) \div 100

\* the largestModule of an empty module list
NoModule == [name |-> "N/A", size |-> 0, gzipSize |-> Some(0), percentage |-> Zero, reasons |-> <<>>]

calculateMetrics(stats) ==
    LET count == Len(stats.modules)
        gzipSize == stats.gzipSize
    IN  [totalSize |-> stats.size,
         totalGzipSize |-> gzipSize,
         totalBrotliSize |-> IF gzipSize > 0 THEN Some(BrotliEstimate(gzipSize)) ELSE None,
         moduleCount |-> count,
         chunkCount |-> Len(stats.chunks),
         largestModule |-> IF count > 0 THEN stats.modules[1] ELSE NoModule,
         averageModuleSize |-> IF count > 0 THEN Fraction(SumSeq(Sizes(stats.modules)), count)
                               ELSE Zero]

(***************************************************************************)
(* Input documents                                                         *)
(***************************************************************************)
NullEntry == [tag |-> "null", name |-> None, size |-> None, gzipSize |-> None,
              reasons |-> Absent, source |-> None]

\* a bare string in a modules array
Str(s) == [NullEntry EXCEPT !.tag = "str", !.name = Some(s)]

Module(n, s, g, r) == [tag |-> "obj", name |-> n, size |-> s, gzipSize |-> g,
                       reasons |-> r, source |-> None]

\* a module that carries its source text
SourceModule(n, s, text) == [Module(n, s, None, Absent) EXCEPT !.source = text]

Asset(s, g) == Module(None, s, g, Absent)

NullChunk == [tag |-> "null", id |-> 0, size |-> None, gzipSize |-> None,
              initial |-> None, modules |-> Absent]

Chunk(i, s, g, init, mods) == [tag |-> "obj", id |-> i, size |-> s, gzipSize |-> g,
                               initial |-> init, modules |-> mods]

BuildError(msg) == [tag |-> "obj", message |-> msg]

NullError == [tag |-> "null", message |-> None]

Reason(tag, text) == [tag |-> tag, text |-> text]

Doc(e, a, m, c) == [json |-> "object", errors |-> e, assets |-> a, modules |-> m, chunks |-> c]

\* a file that is missing, one that is not JSON, one holding a JSON scalar
NoDoc(kind) == [json |-> kind, errors |-> Absent, assets |-> Absent, modules |-> Absent, chunks |-> Absent]

\* `private statsData = {}`
EmptyDoc == Doc(Absent, Absent, Absent, Absent)

OptSizes == {None} \cup {Some(n) : n \in 0..MaxSize}

ErrorValues == {NullError, BuildError(None), BuildError(Some("Module not found")),
                BuildError(Some(QuotedInvalidStats))}

ErrorLists == {Arr(s) : s \in SeqsUpTo(ErrorValues, MaxErrors) \ {<<>>}}

\* documents of a failed build, over every kind of other content
FailedBuildDocs ==
    {Doc(e, a, m, c) :
        e \in ErrorLists,
        a \in {Absent, Arr(<<>>), Arr(<<Asset(Some(-1), None)>>)},
        m \in {Absent, Arr(<<>>), Arr(<<Module(Some("a.js"), Some(-1), None, Absent)>>),
               Arr(<<Module(Some("a.js"), Some(1), None, Absent)>>)},
        c \in {Arr(<<>>), Arr(<<Chunk(0, Some(1), None, None, Arr(<<Str("a.js")>>))>>)}}

ShapeAssets == {Absent, NotArray, Arr(<<>>), Arr(<<NullEntry>>), Arr(<<Asset(None, None)>>),
                Arr(<<Asset(Some(0), None)>>), Arr(<<Asset(Some(1), None)>>),
                Arr(<<Asset(Some(-1), None)>>)}

ShapeModules == {Absent, NotArray, Arr(<<>>), Arr(<<NullEntry>>), Arr(<<Str("a.js")>>), Arr(<<Module(None, None, None, Absent)>>),
                 Arr(<<Module(Some("a.js"), Some(1), None, Absent)>>),
                 Arr(<<Module(Some("a.js"), Some(-1), None, Absent)>>),
                 Arr(<<Module(Some("a.js"), Some(1), None, Arr(<<Reason("null", None)>>))>>)}

ShapeChunkModules == {Absent, NotArray, Arr(<<>>), Arr(<<NullEntry>>), Arr(<<Str("a.js")>>),
                      Arr(<<Module(Some("a.js"), Some(1), None, Absent)>>),
                      Arr(<<Module(Some("a.js"), Some(-1), None, Absent)>>),
                      Arr(<<Module(Some("a.js"), Some(1), None, Arr(<<Reason("null", None)>>))>>)}

ShapeChunks == {Absent, NotArray, Arr(<<>>), Arr(<<NullChunk>>)}
               \cup {Arr(<<Chunk(0, Some(1), None, None, cm)>>) : cm \in ShapeChunkModules}

\* documents without build errors, of every structural shape
ShapeDocs ==
    {Doc(e, a, m, c) : e \in {Absent, NotArray, Arr(<<>>)}, a \in ShapeAssets,
                       m \in ShapeModules, c \in ShapeChunks}

FlatModules == {Module(n, sz, None, Absent) : n \in {Some("a.js"), None}, sz \in OptSizes}

OneChunk == Arr(<<Chunk(0, Some(1), Some(1), Some(TRUE),
                        Arr(<<Module(Some("a.js"), Some(1), Some(1), Absent)>>))>>)

\* documents with a top-level modules array: sizes vary, no gzip sizes
FlatDocs ==
    {Doc(Absent, ac[1], Arr(m), ac[2]) :
        ac \in ({Absent} \cup {Arr(<<Asset(Some(n), None)>>) : n \in 0..MaxSize}) \X {Absent}
               \cup {<<Absent, OneChunk>>},
        m \in SeqsUpTo(FlatModules, MaxModules) \ {<<>>}}

\* the same with the sizes fixed and the gzip sizes varying
GzipDocs ==
    {Doc(Absent, ac[1], Arr(m), ac[2]) :
        ac \in ({Absent} \cup {Arr(<<Asset(Some(1), g)>>) : g \in OptSizes}) \X {Absent}
               \cup {<<Absent, OneChunk>>},
        m \in SeqsUpTo({Module(Some("a.js"), Some(1), g, Absent) : g \in OptSizes}, MaxModules) \ {<<>>}}

ChunkEntries ==
    {Str("a.js"), Str(""), Module(Some("a.js"), Some(-1), None, Absent),
     Module(None, Some(1), None, Absent)}
    \cup {Module(Some("a.js"), Some(n), None, Absent) : n \in 1..MaxSize}

\* documents whose modules are nested in one or two chunks
ChunkedDocs ==
    {Doc(Absent, Absent, Absent, Arr(c)) :
        c \in {<<Chunk(0, None, None, None, Arr(s))>> : s \in SeqsUpTo(ChunkEntries, MaxChunkModules)}
              \cup {<<Chunk(0, None, None, None, Arr(s)), Chunk(1, None, None, None, Arr(<<e>>))>> :
                        s \in SeqsUpTo(ChunkEntries, MaxChunkModules), e \in ChunkEntries}}

\* documents without top-level modules whose assets, chunk modules and chunk
\* sizes are zero or not
FallbackDocs ==
    {Doc(Absent, a, m, Arr(<<Chunk(0, sz, sz, None, ml)>> \o more)) :
        a \in {Absent, Arr(<<Asset(Some(0), Some(0))>>), Arr(<<Asset(Some(1), Some(1))>>)},
        m \in {Absent, Arr(<<>>)},
        sz \in {None, Some(0), Some(1)},
        ml \in {Absent, Arr(<<>>), Arr(<<Str("a.js")>>),
                Arr(<<Module(Some("a.js"), None, None, Absent)>>),
                Arr(<<Module(Some("a.js"), Some(1), Some(1), Absent)>>)},
        more \in {<<>>, <<Chunk(1, Some(1), Some(1), None,
                                Arr(<<Module(Some("a.js"), Some(2), Some(2), Absent)>>))>>}}

ReasonLists ==
    {Absent, Arr(<<>>), Arr(<<Reason("str", Some("x.js"))>>),
     Arr(<<Reason("str", Some("x.js")), Reason("str", Some("x.js"))>>),
     Arr(<<Reason("str", Some("x.js")), Reason("str", Some("y.js"))>>),
     Arr(<<Reason("obj", Some("y.js"))>>), Arr(<<Reason("obj", None)>>)}

\* one chunk per occurrence
OneChunkEach(occ) == Arr([i \in 1..Len(occ) |-> Chunk(i, None, None, None, Arr(<<occ[i]>>))])

\* documents in which one module name occurs in up to MaxOccurrences chunks,
\* with varying gzip sizes, or with varying reasons
MergeDocs ==
    {Doc(Absent, Absent, Absent, OneChunkEach(occ)) :
        occ \in (SeqsUpTo({Str("a.js")} \cup {Module(Some("a.js"), Some(1), g, Absent) : g \in OptSizes},
                          MaxOccurrences) \ {<<>>})
                \cup (SeqsUpTo({Str("a.js")} \cup {Module(Some("a.js"), Some(1), None, r) : r \in ReasonLists},
                               MaxOccurrences) \ {<<>>})}

\* the worked examples of the specification and the test suite
TwoChunkExample(first, second) ==
    Doc(Absent, Absent, Absent,
        Arr(<<Chunk(0, None, None, None, Arr(<<Module(Some("shared.js"), Some(first), None, Absent)>>)),
              Chunk(1, None, None, None, Arr(<<Module(Some("shared.js"), Some(second), None, Absent)>>))>>))

PercentageExample ==
    Doc(Absent, Arr(<<Asset(Some(10000), None)>>),
        Arr(<<Module(Some("large.js"), Some(6000), None, Absent),
              Module(Some("small.js"), Some(4000), None, Absent)>>), Absent)

MissingFieldsExample ==
    Doc(Absent, Arr(<<Asset(Some(10000), None)>>),
        Arr(<<Module(Some("complete.js"), Some(5000), None, Absent),
              Module(Some("no-size.js"), None, None, Absent),
              Module(Some(""), Some(3000), None, Absent)>>), Absent)

\* the three-module lodash/react example
PackagesExample ==
    Doc(Absent, Arr(<<Asset(Some(10000), None)>>),
        Arr(<<Module(Some("node_modules/lodash/index.js"), Some(5000), None, Absent),
              Module(Some("node_modules/lodash/clone.js"), Some(2000), None, Absent),
              Module(Some("node_modules/react/index.js"), Some(3000), None, Absent)>>), Absent)

DuplicateSourcesExample ==
    Doc(Absent, Arr(<<Asset(Some(10000), None)>>),
        Arr(<<Module(Some("src/utils/helper.js"), Some(2000), None, Absent),
              Module(Some("src/components/helper.js"), Some(2000), None, Absent)>>), Absent)

LargeBundleExample ==
    Doc(Absent, Arr(<<Asset(Some(1000000), Some(600000))>>),
        Arr(<<Module(Some("large.js"), Some(1000000), None, Absent)>>), Absent)

Examples == {TwoChunkExample(100, 150), TwoChunkExample(150, 100), PercentageExample,
             MissingFieldsExample, PackagesExample, DuplicateSourcesExample, LargeBundleExample}

\* modules of packages and of same-named source files
PackageModules ==
    {Module(Some("node_modules/lodash/index.js"), Some(2), Some(1), Absent),
     Module(Some("node_modules/lodash/clone.js"), Some(1), Some(2), Absent),
     Module(Some("node_modules/lodash/clone.js"), Some(2), Some(0), Absent),
     Module(Some("node_modules\\@scope\\pkg\\index.js"), Some(1), None, Absent),
     Module(Some("node_modules/@scope/pkg/lib.js"), Some(1), Some(1), Absent),
     Module(Some("src/utils/helper.js"), Some(1), None, Absent),
     Module(Some("src\\components\\helper.js"), Some(2), None, Absent),
     Module(Some("helper.js"), Some(1), None, Absent),
     Module(None, Some(1), None, Absent)}

PackageDocs ==
    {Doc(Absent, a, Arr(m), Absent) :
        a \in {Absent, Arr(<<Asset(Some(4), None)>>)},
        m \in SeqsUpTo(PackageModules, MaxModules) \ {<<>>}}

\* documents with more groups, packages, flagged modules, modules or chunks
\* than the analyses report or tolerate
\* n pairs of same-named files in two directories, the i-th pair of size i
ManyDuplicatesDoc(n) ==
    Doc(Absent, Absent,
        Arr([i \in 1..(2 * n) |->
                Module(Some("src/dir" \o ToString(i % 2) \o "/helper" \o ToString((i + 1) \div 2) \o ".js"),
                       Some((i + 1) \div 2), Some(1), Absent)]), Absent)

\* one module of each of n packages, the i-th of size i
ManyPackagesDoc(n) ==
    Doc(Absent, Absent,
        Arr([i \in 1..n |-> Module(Some("node_modules/p" \o ToString(i) \o "/index.js"),
                                   Some(i), Some(1), Absent)]), Absent)

\* n modules of one chunk that nothing refers to, the i-th of size i
ManyUnusedDoc(n) ==
    Doc(Absent, Absent, Absent,
        Arr(<<Chunk(0, None, None, None,
                    Arr([i \in 1..n |-> Module(Some("m" \o ToString(i) \o ".js"), Some(i), None, Absent)]))>>))

ManyModulesDoc(n) ==
    Doc(Absent, Absent,
        Arr([i \in 1..n |-> Module(Some("m" \o ToString(i) \o ".js"), Some(1), None, Absent)]), Absent)

ManyChunksDoc(n, sz) ==
    Doc(Absent, Absent, Absent,
        Arr([i \in 1..n |-> Chunk(i, Some(sz), None, None,
                                   Arr(<<Module(Some("a.js"), Some(1), None, Absent)>>))]))

LimitDocs ==
    {ManyDuplicatesDoc(n) : n \in {10, 11}}
    \cup {ManyPackagesDoc(n) : n \in {20, 21}}
    \cup {ManyUnusedDoc(n) : n \in {20, 21}}
    \cup {ManyModulesDoc(n) : n \in {500, 501}}
    \cup {ManyChunksDoc(n, sz) : n \in {20, 21}, sz \in {49999, 50000}}

ChunkSizes == {None, Some(0), Some(1), Some(10), Some(11), Some(500000), Some(500001)}

SizedChunks(i) ==
    {Chunk(i, sz, None, init, Arr(<<Module(Some("a.js"), Some(1), None, Absent)>>)) :
        sz \in ChunkSizes, init \in {None, Some(TRUE), Some(FALSE)}}

\* documents of one or two chunks of varying size, initial or not
ChunkDocs ==
    {Doc(Absent, Absent, Absent, Arr(<<c>>)) : c \in SizedChunks(0)}
    \cup {Doc(Absent, Absent, Absent, Arr(<<c, d>>)) : c \in SizedChunks(0), d \in SizedChunks(1)}

\* documents around the thresholds of generateRecommendations
RecommendationDocs ==
    {Doc(Absent, Arr(<<Asset(Some(sz), g)>>), Arr(m), Absent) :
        sz \in {2, 100},
        g \in {None, Some(250000), Some(250001),
                Some(500000), Some(500001)},
        m \in {<<Module(Some("a.js"), Some(1), None, Absent)>>,
                <<Module(Some("src/utils/helper.js"), Some(1), None, Absent),
                  Module(Some("src/components/helper.js"), Some(1), None, Absent)>>}}

UnusedReasons ==
    {Absent, Arr(<<Reason("str", Some("entry"))>>), Arr(<<Reason("str", Some("main entry"))>>),
     Arr(<<Reason("str", Some("cjs require"))>>), Arr(<<Reason("str", Some("a.js"))>>),
     Arr(<<Reason("obj", Some("b.jsx"))>>), Arr(<<Reason("str", Some("from a.js and c.ts"))>>)}

\* documents whose modules name each other, or nothing, as their reasons
UnusedDocs ==
    {Doc(Absent, Absent, m, Arr(<<Chunk(0, None, None, None, c)>>)) :
        m \in {Absent},
        c \in {Arr(<<Module(Some("a.js"), sz, None, ra), Module(Some("b.jsx"), Some(1), None, rb)>>) :
                   sz \in {Some(0), Some(2)}, ra \in UnusedReasons, rb \in UnusedReasons}}
    \cup {Doc(Absent, Absent,
               Arr(<<Module(Some("a.js"), Some(2), None, ra), Module(Some("c.ts"), Some(1), None, Absent)>>),
               Arr(<<Chunk(0, None, None, None, c)>>)) :
              ra \in UnusedReasons,
              c \in {Absent, Arr(<<Str("a.js")>>), Arr(<<Module(Some("c.ts"), Some(1), None, Absent)>>),
                      Arr(<<Module(Some("a.js"), Some(1), None, Absent)>>)}}

\* the document of the test 'should detect tree-shaking issues'
TreeshakingExample ==
    Doc(Absent, Arr(<<Asset(Some(10000), None)>>),
        Arr(<<SourceModule(Some("cjs-module.js"), Some(1000), Some("module.exports = {}")),
              SourceModule(Some("esm-module.js"), Some(1000), Some("export default {}"))>>), Absent)

\* named and unnamed modules with and without a CommonJS source, of one size;
\* a larger one, one without a source text, one that calls require
SourceModules ==
    {SourceModule(n, Some(1), text) :
        n \in {Some("a.js"), Some("b.js"), None},
        text \in {Some("module.exports = {}"), Some("export default {}")}}
    \cup {SourceModule(Some("a.js"), Some(2), Some("module.exports = {}")),
          SourceModule(Some("a.js"), Some(2), None),
          SourceModule(Some("b.js"), Some(1), Some("const a = require('a')"))}

\* n modules "m<i>.js" of sizes n, n - 1, ..., all with a CommonJS source
ManyCommonJSModules(n) ==
    [i \in 1..n |-> SourceModule(Some("m" \o ToString(i) \o ".js"), Some(n + 1 - i),
                                 Some("module.exports = {}"))]

\* documents whose modules carry source texts, at the top level or in a chunk
TreeshakingDocs ==
    {TreeshakingExample}
    \cup {Doc(Absent, Absent, Arr(m), Absent) : m \in SeqsUpTo(SourceModules, MaxModules) \ {<<>>}}
    \cup {Doc(Absent, Absent, m, Arr(<<Chunk(0, None, None, None, Arr(<<e>>))>>)) :
              m \in {Absent, Arr(<<>>)}, e \in SourceModules}
    \cup {Doc(Absent, Absent, Arr(ManyCommonJSModules(n)), Absent) : n \in 10..11}

MetricsGzipSizes == {None, Some(-1), Some(50), Some(51)}

\* documents whose gzip sizes are absent, negative, or have an estimate that
\* falls on a half
MetricsDocs ==
    {Doc(Absent, a, Arr(m), Absent) :
        a \in {Absent} \cup {Arr(<<Asset(Some(1), g)>>) : g \in MetricsGzipSizes},
        m \in SeqsUpTo({Module(Some("a.js"), Some(1), g, Absent) : g \in {None, Some(-1), Some(50)}}
                       \cup {Module(Some("b.js"), Some(2), None, Absent)}, MaxModules)}

Docs == TreeshakingDocs \cup MetricsDocs \cup FailedBuildDocs \cup ShapeDocs \cup FlatDocs \cup GzipDocs \cup ChunkedDocs
        \cup FallbackDocs \cup MergeDocs \cup Examples \cup PackageDocs \cup LimitDocs
        \cup ChunkDocs \cup RecommendationDocs \cup UnusedDocs

\* the parts paths are put together from
PathParts == {"/", "\\", "node_modules", "@s", "p"}

MaxPathLen == 5

RECURSIVE Join(_)
Join(parts) == IF parts = <<>> THEN "" ELSE Head(parts) \o Join(Tail(parts))

Paths == SeqsUpTo(PathParts, MaxPathLen)

Platforms == {"posix", "win32"}

Files == Docs \cup {NoDoc("missing"), NoDoc("invalid"), NoDoc("scalar")}

(***************************************************************************)
(* The history log (src/unnamed/part_002)                                  *)
(***************************************************************************)
\* no run of the analyze command
NoCli == [step |-> "none"]

Procs == {1, 2}

HistoryAbsent == [kind |-> "absent", entries |-> <<>>]

\* a history file whose content JSON.parse rejects
HistoryCorrupt == [kind |-> "corrupt", entries |-> <<>>]

HistoryData(entries) == [kind |-> "json", entries |-> entries]

\* the state in which no history has been written and no call is in progress
NoHistory ==
    /\ historyFile = HistoryAbsent
    /\ saving = [p \in Procs |-> None]
    /\ gitHead = None
    /\ saved = [calls |-> 0, entries |-> <<>>, overlapped |-> FALSE]

loadHistory(file) == IF file.kind = "json" THEN file.entries ELSE <<>>

\* the AnalysisResult handed to the n-th call, as far as the entry reads it
ResultOfRun(n) ==
    [timestamp |-> n,
     metrics |-> [totalSize |-> 1000 + n, totalGzipSize |-> n % 2,
                  totalBrotliSize |-> IF n % 2 > 0 THEN Some(BrotliEstimate(n % 2)) ELSE None,
                  moduleCount |-> 1, chunkCount |-> 0,
                  largestModule |-> NoModule, averageModuleSize |-> Zero]]

HistoryEntry(r, git) ==
    [timestamp |-> r.timestamp,
     metrics |-> [totalSize |-> r.metrics.totalSize,
                  totalGzipSize |-> r.metrics.totalGzipSize,
                  totalBrotliSize |-> r.metrics.totalBrotliSize,
                  moduleCount |-> r.metrics.moduleCount,
                  chunkCount |-> r.metrics.chunkCount],
     gitCommit |-> IF git = None THEN None ELSE Some(git[1].commit),
     gitBranch |-> IF git = None THEN None ELSE Some(git[1].branch)]

\* entries.slice(0, 100)
KeepFirst(entries) == Take(entries, 100)

\* entries.length > 100 ? entries.slice(-100) : entries
KeepLast(entries) ==
    IF Len(entries) > 100 THEN SubSeq(entries, Len(entries) - 99, Len(entries)) ELSE entries

\* saveHistoryEntry up to and including loadHistory
LoadHistoryStep(p) ==
    /\ pc = "history"
    /\ saving[p] = None
    /\ saved.calls < MaxSaves
    /\ saving' = [saving EXCEPT ![p] = Some([entries |-> loadHistory(historyFile),
                                              result |-> ResultOfRun(saved.calls + 1)])]
    /\ saved' = [saved EXCEPT !.calls = @ + 1,
                              !.overlapped = @ \/ \E q \in Procs \ {p} : saving[q] # None]
    /\ UNCHANGED <<pc, statsFile, statsData, error, result, platform, modulePath, packageName,
                   clock, historyFile, gitHead, cli>>

\* a write that appends to the log as it is in the file at that moment
WriteRereading(p) ==
    /\ pc = "history"
    /\ saving[p] # None
    /\ LET entry == HistoryEntry(saving[p][1].result, gitHead)
       IN  /\ historyFile' = HistoryData(KeepLast(Append(loadHistory(historyFile), entry)))
           /\ saved' = [saved EXCEPT !.entries = Append(@, entry)]
    /\ saving' = [saving EXCEPT ![p] = None]
    /\ UNCHANGED <<pc, statsFile, statsData, error, result, platform, modulePath, packageName,
                   clock, gitHead, cli>>

\* the rest of saveHistoryEntry: the git queries, push, the cap, writeFileSync
WriteHistoryStep(p) ==
    /\ pc = "history"
    /\ saving[p] # None
    /\ LET entry == HistoryEntry(saving[p][1].result, gitHead)
       IN  /\ historyFile' = HistoryData(KeepLast(Append(saving[p][1].entries, entry)))
           /\ saved' = [saved EXCEPT !.entries = Append(@, entry)]
    /\ saving' = [saving EXCEPT ![p] = None]
    /\ UNCHANGED <<pc, statsFile, statsData, error, result, platform, modulePath, packageName,
                   clock, gitHead, cli>>

HistoryInit ==
    /\ pc = "history"
    /\ statsFile = NoDoc("missing")
    /\ statsData = EmptyDoc
    /\ error = <<>>
    /\ result = None
    /\ platform \in Platforms
    /\ modulePath = <<>>
    /\ packageName = None
    /\ clock = 0
    /\ historyFile \in {HistoryAbsent, HistoryCorrupt}
    /\ saving = [p \in Procs |-> None]
    /\ gitHead \in {None, Some([commit |-> "4f2a9c1", branch |-> "main"])}
    /\ saved = [calls |-> 0, entries |-> <<>>, overlapped |-> FALSE]
    /\ cli = NoCli

\* calls that do not overlap: one begins only when none is in progress
HistoryNext ==
    \E p \in Procs :
        \/ (\A q \in Procs : saving[q] = None) /\ LoadHistoryStep(p)
        \/ WriteHistoryStep(p)

HistorySpec == HistoryInit /\ [][HistoryNext]_vars

\* calls of separate processes, in any interleaving
OverlappingNext ==
    \E p \in Procs :
        \/ saved.calls < MaxOverlappingSaves /\ LoadHistoryStep(p)
        \/ WriteHistoryStep(p)

OverlappingSpec == HistoryInit /\ [][OverlappingNext]_vars

(***************************************************************************)
(* The analyze command: its options (src/src/cli.ts, src/src/config)       *)
(***************************************************************************)
\* what the user wrote on the command line: no option at all
NothingGiven == [output |-> None, json |-> FALSE, html |-> TRUE, format |-> None,
                 largeModuleThreshold |-> None, maxGzipSize |-> None, maxInitialSize |-> None,
                 baseline |-> None, dependencyGraph |-> None]

\* the options object commander hands to the action: the declared defaults
\* stand in for what the user did not give
CommanderOptions(given) ==
    [given EXCEPT !.output = IF @ = None THEN Some("./bundle-report.html") ELSE @,
                  !.format = IF @ = None THEN Some("html") ELSE @,
                  !.largeModuleThreshold = IF @ = None THEN Some(5) ELSE @]

\* packlyze.config.json without any key
EmptyConfig == [thresholds |-> None, output |-> None, baseline |-> None, format |-> None]

NoThresholds == [maxGzipSize |-> None, maxInitialSize |-> None, largeModuleThreshold |-> None]

\* truthiness of an optional string (undefined and '' are falsy)
TruthyText(v) == v # None /\ v[1] # ""

\* config.thresholds.x !== undefined && options.largeModuleThreshold === 5
FromConfigWhenFive(fromConfig, fromOptions) ==
    IF fromConfig # None /\ fromOptions = Some(5) THEN fromConfig ELSE fromOptions

\* config.thresholds.x !== undefined && !options.x
FromConfigWhenUnset(fromConfig, fromOptions) ==
    IF fromConfig # None /\ ~Truthy(fromOptions) THEN fromConfig ELSE fromOptions

\* config.x && !options.x
FromConfigWhenBothAllow(fromConfig, fromOptions) ==
    IF TruthyText(fromConfig) /\ ~TruthyText(fromOptions) THEN fromConfig ELSE fromOptions

\* config is None for `null`: no config file, or one that does not parse
mergeConfigWithOptions(config, options) ==
    IF config = None THEN options
    ELSE LET c == config[1]
             t == IF c.thresholds = None THEN NoThresholds ELSE c.thresholds[1]
         IN  [options EXCEPT
                 !.maxGzipSize = FromConfigWhenUnset(t.maxGzipSize, @),
                 !.maxInitialSize = FromConfigWhenUnset(t.maxInitialSize, @),
                 !.largeModuleThreshold = FromConfigWhenFive(t.largeModuleThreshold, @),
                 !.output = FromConfigWhenBothAllow(c.output, @),
                 !.baseline = FromConfigWhenBothAllow(c.baseline, @),
                 !.format = FromConfigWhenBothAllow(c.format, @)]

\* the run before its first statement
CliStart(given, config, statsPath, baselinePath, writable) ==
    [step |-> "start", given |-> given, config |-> config, options |-> None,
     statsPath |-> statsPath, baselinePath |-> baselinePath, writable |-> writable,
     result |-> None, baselineResult |-> None, written |-> <<>>, exit |-> None]

\* loadConfig, mergeConfigWithOptions
MergeOptions ==
    /\ pc = "cli"
    /\ cli.step = "start"
    /\ cli' = [cli EXCEPT !.step = "merged",
                          !.options = Some(mergeConfigWithOptions(cli.config,
                                                                  CommanderOptions(cli.given)))]
    /\ UNCHANGED <<pc, statsFile, statsData, error, result, platform, modulePath, packageName,
                   clock, history>>

\* the command-line values and config files the merge is checked on
MergeGiven ==
    {[NothingGiven EXCEPT !.maxGzipSize = g, !.maxInitialSize = i, !.largeModuleThreshold = l,
                          !.output = o, !.baseline = b, !.format = f] :
        g \in {None, Some(0), Some(1)}, i \in {None, Some(0), Some(1)},
        l \in {None, Some(5), Some(10)}, o \in {None, Some("out.html")},
        b \in {None, Some("old.json")}, f \in {None, Some("csv")}}

MergeConfigs ==
    {None, Some(EmptyConfig)}
    \cup {Some([thresholds |-> Some([maxGzipSize |-> g, maxInitialSize |-> i,
                                     largeModuleThreshold |-> l]),
                output |-> o, baseline |-> b, format |-> f]) :
              g \in {None, Some(2)}, i \in {None, Some(2)}, l \in {None, Some(20)},
              o \in {None, Some("config.html")}, b \in {None, Some("config.json")},
              f \in {None, Some("md")}}

MergeInit ==
    /\ pc = "cli"
    /\ statsFile = NoDoc("missing")
    /\ statsData = EmptyDoc
    /\ error = <<>>
    /\ result = None
    /\ platform = "posix"
    /\ modulePath = <<>>
    /\ packageName = None
    /\ clock = 0
    /\ NoHistory
    /\ \E given \in MergeGiven, config \in MergeConfigs :
           cli = CliStart(given, config, NoDoc("missing"), NoDoc("missing"), TRUE)

MergeNext == MergeOptions

MergeSpec == MergeInit /\ [][MergeNext]_vars

(***************************************************************************)
(* The analyze command: its steps (src/src/cli.ts:68-186)                  *)
(***************************************************************************)
\* fs.existsSync, new Packlyze(path), analyzer.analyze(): None when one of
\* them throws, else the part of the result the command reads
CliAnalysis(f) ==
    IF f.json = "missing" THEN None
    ELSE IF loadStats(f).threw THEN None
    ELSE IF AnalyzeThrows(f) THEN None
    ELSE LET stats == extractBundleStats(f)
         IN  Some([bundleStats |-> stats, metrics |-> calculateMetrics(stats),
                   timestamp |-> clock])

\* bytes / 1024 / 1024 > mb, for a threshold that was set
ExceedsMb(bytes, mb) == mb # None /\ bytes > mb[1] * 1048576

evaluateThresholds(r, options) ==
    IF ExceedsMb(r.bundleStats.isInitialBySize, options.maxInitialSize) THEN 3
    ELSE IF ExceedsMb(r.metrics.totalGzipSize, options.maxGzipSize) THEN 2
    ELSE 0

\* process.exit(code), or the action returning (code 0)
Exited(code) == [cli EXCEPT !.step = "exited", !.exit = Some(code)]

\* the existence check, new Packlyze(statsFile), analyzer.analyze()
AnalyzeStats ==
    /\ pc = "cli"
    /\ cli.step = "merged"
    /\ LET r == CliAnalysis(cli.statsPath)
       IN  cli' = IF r = None THEN Exited(1) ELSE [cli EXCEPT !.step = "analyzed", !.result = r]
    /\ UNCHANGED <<pc, statsFile, statsData, error, result, platform, modulePath, packageName,
                   clock, history>>

\* the baseline block with a failure of the baseline passed over
AnalyzeBaselineLenient ==
    /\ pc = "cli"
    /\ cli.step = "analyzed"
    /\ cli' = [cli EXCEPT !.step = "compared",
                          !.baselineResult = IF TruthyText(cli.options[1].baseline)
                                             THEN CliAnalysis(cli.baselinePath) ELSE None]
    /\ UNCHANGED <<pc, statsFile, statsData, error, result, platform, modulePath, packageName,
                   clock, history>>

\* if (mergedOptions.baseline) { existence check, new Packlyze, analyze }
AnalyzeBaseline ==
    /\ pc = "cli"
    /\ cli.step = "analyzed"
    /\ IF TruthyText(cli.options[1].baseline)
       THEN LET r == CliAnalysis(cli.baselinePath)
            IN  cli' = IF r = None THEN Exited(1)
                       ELSE [cli EXCEPT !.step = "compared", !.baselineResult = r]
       ELSE cli' = [cli EXCEPT !.step = "compared"]
    /\ UNCHANGED <<pc, statsFile, statsData, error, result, platform, modulePath, packageName,
                   clock, history>>

\* the report the format names: csv, markdown, or html for anything else
ReportKind(format) ==
    IF format = Some("csv") THEN "csv"
    ELSE IF format \in {Some("markdown"), Some("md")} THEN "markdown"
    ELSE "html"

\* the JSON output, or the printed summary and the report file
Report ==
    /\ pc = "cli"
    /\ cli.step = "compared"
    /\ LET options == cli.options[1]
       IN  cli' = IF options.json THEN Exited(0)
                  ELSE IF ~options.html THEN [cli EXCEPT !.step = "reported"]
                  ELSE IF ~cli.writable THEN Exited(1)
                  ELSE [cli EXCEPT !.step = "reported",
                                   !.written = Append(@, ReportKind(options.format))]
    /\ UNCHANGED <<pc, statsFile, statsData, error, result, platform, modulePath, packageName,
                   clock, history>>

\* evaluateThresholds, then the dependency graph if one was asked for
Graph ==
    /\ pc = "cli"
    /\ cli.step = "reported"
    /\ LET options == cli.options[1]
           exitCode == evaluateThresholds(cli.result[1], options)
       IN  cli' = IF ~TruthyText(options.dependencyGraph)
                  THEN [cli EXCEPT !.step = "graphed", !.exit = Some(exitCode)]
                  ELSE IF ~cli.writable THEN Exited(1)
                  ELSE [cli EXCEPT !.step = "graphed", !.exit = Some(exitCode),
                                   !.written = Append(@, "graph")]
    /\ UNCHANGED <<pc, statsFile, statsData, error, result, platform, modulePath, packageName,
                   clock, history>>

\* saveHistoryEntry(result), whose failure is passed over, then
\* process.exit(exitCode) or the end of the action
SaveAndExit ==
    /\ pc = "cli"
    /\ cli.step = "graphed"
    /\ cli' = [cli EXCEPT !.step = "exited",
                          !.written = IF cli.writable THEN Append(@, "history") ELSE @]
    /\ IF cli.writable
       THEN LET entry == HistoryEntry(cli.result[1], gitHead)
            IN  /\ historyFile' = HistoryData(KeepLast(Append(loadHistory(historyFile), entry)))
                /\ saved' = [saved EXCEPT !.calls = @ + 1, !.entries = Append(@, entry)]
       ELSE UNCHANGED <<historyFile, saved>>
    /\ UNCHANGED <<pc, statsFile, statsData, error, result, platform, modulePath, packageName,
                   clock, saving, gitHead>>

\* a stats file with one asset of the gzip size g and one initial chunk of
\* the size i
BudgetDoc(g, i) ==
    Doc(Absent, Arr(<<Asset(Some(g), Some(g))>>), Absent,
        Arr(<<Chunk(0, Some(i), None, Some(TRUE),
                    Arr(<<Module(Some("a.js"), Some(i), None, Absent)>>))>>))

\* file paths that do not exist, do not parse, make analyze() throw, and
\* bundles of exactly 1 MB and of one byte more
CliFiles ==
    {NoDoc("missing"), NoDoc("invalid"), Doc(Absent, Absent, Arr(<<NullEntry>>), Absent)}
    \cup {BudgetDoc(g, i) : g \in {1048576, 1048577}, i \in {1048576, 1048577}}

CliGiven ==
    {[NothingGiven EXCEPT !.json = j, !.html = h, !.format = f, !.maxGzipSize = g,
                          !.maxInitialSize = i, !.baseline = b, !.dependencyGraph = d] :
        j \in BOOLEAN, h \in BOOLEAN, f \in {None, Some("csv")}, g \in {None, Some(1)},
        i \in {None, Some(1)}, b \in {None, Some("old.json")}, d \in {None, Some("graph.dot")}}

CliConfigs ==
    {None, Some([EmptyConfig EXCEPT !.thresholds = Some([NoThresholds EXCEPT !.maxGzipSize = Some(1)]),
                                    !.format = Some("md")])}

CliInit ==
    /\ pc = "cli"
    /\ statsFile = NoDoc("missing")
    /\ statsData = EmptyDoc
    /\ error = <<>>
    /\ result = None
    /\ platform = "posix"
    /\ modulePath = <<>>
    /\ packageName = None
    /\ clock = 0
    /\ NoHistory
    /\ \E given \in CliGiven, config \in CliConfigs, f \in CliFiles, w \in BOOLEAN,
          b \in {NoDoc("missing"), Doc(Absent, Absent, Arr(<<NullEntry>>), Absent),
                 BudgetDoc(1048577, 1048577)} :
           cli = CliStart(given, config, f, b, w)

CliNext == MergeOptions \/ AnalyzeStats \/ AnalyzeBaseline \/ Report \/ Graph \/ SaveAndExit

CliSpec == CliInit /\ [][CliNext]_vars

(***************************************************************************)
(* The analyzer as a state machine                                         *)
(***************************************************************************)
FileNotFoundText == "Stats file not found"

Init ==
    /\ pc = "new"
    /\ statsFile = NoDoc("missing")
    /\ statsData = EmptyDoc
    /\ error = <<>>
    /\ result = None
    /\ platform \in Platforms
    /\ modulePath = <<>>
    /\ packageName = None
    /\ clock = 0
    /\ NoHistory
    /\ cli = NoCli

\* new Packlyze(statsPath): the existence check, then loadStats
ConstructFrom(files) ==
    /\ pc = "new"
    /\ \E f \in files :
        LET outcome == IF f.json = "missing" THEN Thrown(<<FileNotFoundText>>) ELSE loadStats(f)
        IN  /\ statsFile' = f
            /\ statsData' = IF f.json \in {"missing", "invalid"} THEN EmptyDoc ELSE f
            /\ error' = outcome.message
            /\ pc' = IF outcome.threw THEN "failed" ELSE "loaded"
    /\ UNCHANGED <<result, platform, modulePath, packageName, clock, history, cli>>

Construct == ConstructFrom(Files)

\* analyze() with this.statsData.modules sorted where it stands
AnalyzeSortingInPlace ==
    /\ pc \in {"loaded", "analyzed", "threw"}
    /\ ~AnalyzeThrows(statsData)
    /\ pc' = "analyzed"
    /\ error' = <<>>
    /\ statsData' = IF HasTopLevelModules(statsData)
                    THEN [statsData EXCEPT !.modules.items =
                             StableSortDesc(@, [i \in 1..Len(@) |-> OrZero(PropSize(@[i]))])]
                    ELSE statsData
    /\ result' = Some(LET stats == extractBundleStats(statsData')
                      IN  [bundleStats |-> stats,
                           recommendations |-> generateRecommendations(stats),
                           treeshakingIssues |-> detectTreeshakingIssues(statsData', stats),
                           duplicates |-> findDuplicates(stats),
                           packages |-> analyzePackages(stats),
                           chunkAnalysis |-> analyzeChunks(stats),
                           unusedModules |-> detectUnusedModules(stats),
                           metrics |-> calculateMetrics(stats),
                           timestamp |-> clock])
    /\ UNCHANGED <<statsFile, platform, modulePath, packageName, clock, history, cli>>

\* analyzer.analyze() on a constructed analyzer
Analyze ==
    /\ pc \in {"loaded", "analyzed", "threw"}
    /\ IF AnalyzeThrows(statsData)
       THEN /\ pc' = "threw"
            /\ error' = <<TypeErrorText>>
            /\ result' = None
       ELSE /\ pc' = "analyzed"
            /\ error' = <<>>
            /\ result' = Some(LET stats == extractBundleStats(statsData)
                               IN  [bundleStats |-> stats,
                                    recommendations |-> generateRecommendations(stats),
                                    treeshakingIssues |-> detectTreeshakingIssues(statsData, stats),
                                    duplicates |-> findDuplicates(stats),
                                    packages |-> analyzePackages(stats),
                                    chunkAnalysis |-> analyzeChunks(stats),
                                    unusedModules |-> detectUnusedModules(stats),
                                    metrics |-> calculateMetrics(stats),
                                    timestamp |-> clock])
    /\ UNCHANGED <<statsFile, statsData, platform, modulePath, packageName, clock, history, cli>>

Next == Construct \/ Analyze

Spec == Init /\ [][Next]_vars

(***************************************************************************)
(* The pipeline run twice on one file: by a second analyze() on the same   *)
(* analyzer, or by a second analyzer built over the file, at the same or   *)
(* at a later instant                                                      *)
(***************************************************************************)
RerunFiles == Examples \cup TreeshakingDocs \cup MetricsDocs \cup MergeDocs \cup UnusedDocs

\* new Packlyze(statsPath) once more, by a caller that holds the first result
ConstructAgain ==
    /\ pc = "analyzed"
    /\ pc' = "loaded"
    /\ statsData' = statsFile
    /\ error' = <<>>
    /\ UNCHANGED <<statsFile, result, platform, modulePath, packageName, clock, history, cli>>

\* time passes between two runs
Tick ==
    /\ pc = "analyzed"
    /\ clock = 0
    /\ clock' = 1
    /\ UNCHANGED <<pc, statsFile, statsData, error, result, platform, modulePath, packageName, history, cli>>

RerunNext == ConstructFrom(RerunFiles) \/ Analyze \/ ConstructAgain \/ Tick

RerunSpec == Init /\ [][RerunNext]_vars

(***************************************************************************)
(* extractPackageName on its own, over every path of up to MaxPathLen      *)
(* parts                                                                   *)
(***************************************************************************)
PathInit ==
    /\ pc = "path"
    /\ statsFile = NoDoc("missing")
    /\ statsData = EmptyDoc
    /\ error = <<>>
    /\ result = None
    /\ platform \in Platforms
    /\ modulePath \in Paths
    /\ packageName = None
    /\ clock = 0
    /\ NoHistory
    /\ cli = NoCli

ExtractPackageName ==
    /\ pc = "path"
    /\ pc' = "extracted"
    /\ packageName' = extractPackageName(Join(modulePath))
    /\ UNCHANGED <<statsFile, statsData, error, result, platform, modulePath, clock, history, cli>>

PathNext == ExtractPackageName

PathSpec == PathInit /\ [][PathNext]_vars

(***************************************************************************)
(* Error kinds: the text a message starts with tells which failure the     *)
(* caller is shown                                                         *)
(***************************************************************************)
ErrorKind(msg) ==
    IF msg = <<>> THEN "None"
    ELSE IF msg[1] = FileNotFoundText THEN "FileNotFound"
    ELSE IF msg[1] = InvalidJSONText THEN "ParseError"
    ELSE IF msg[1] = BuildFailedText THEN "BuildFailed"
    ELSE IF msg[1] \in {InvalidStatsText, NoContentText} THEN "SchemaError"
    ELSE "Other"

Attempted == pc # "new"

HasBuildErrors(d) == IsArray(d.errors) /\ Len(d.errors.items) > 0

bundleStats == result[1].bundleStats

(***************************************************************************)
(* Properties                                                              *)
(***************************************************************************)
\* C1: constructing the analyzer on a document whose errors array is
\* non-empty always fails, and the failure is of the BuildFailed kind
\* whatever else the document contains.
C1_BuildErrorsGiveBuildFailed ==
    (Attempted /\ HasBuildErrors(statsFile)) => (pc = "failed" /\ ErrorKind(error) = "BuildFailed")

\* the arrays named by the schema rule
ContentFields(d) == {d.assets, d.modules, d.chunks}

NoContentArray(d) == \A f \in ContentFields(d) : ~IsArray(f)

AllPresentArraysEmpty(d) ==
    /\ \E f \in ContentFields(d) : IsArray(f)
    /\ \A f \in ContentFields(d) : IsArray(f) => f.items = <<>>

NegativeSize(f) ==
    IsArray(f) /\ \E i \in 1..Len(f.items) :
        f.items[i].tag = "obj" /\ f.items[i].size # None /\ f.items[i].size[1] < 0

SchemaInvalid(d) == NoContentArray(d) \/ AllPresentArraysEmpty(d) \/ NegativeSize(d.modules) \/ NegativeSize(d.assets)

\* C2: a JSON object without build errors that has no assets/modules/chunks
\* array, or only empty ones, or a negative top-level module or asset size,
\* fails ingestion with the SchemaError kind and no analyzer is constructed.
C2_SchemaInvalidGivesSchemaError ==
    (Attempted /\ statsFile.json = "object" /\ ~HasBuildErrors(statsFile) /\ SchemaInvalid(statsFile))
        => (pc = "failed" /\ ErrorKind(error) = "SchemaError")

\* C3: once the constructor has succeeded, analyze() never throws.
C3_AnalyzeNeverThrows == pc # "threw"

\* C4: a module appearing in two chunks with sizes 100 and 150 contributes
\* exactly 150 to the total size, whichever chunk comes first.
C4_SharedModuleCountsMax ==
    (pc = "analyzed" /\ statsFile \in {TwoChunkExample(100, 150), TwoChunkExample(150, 100)})
        => bundleStats.size = 150

\* C5: every module's percentage lies in the closed range [0, 100].
C5_PercentageInRange ==
    pc = "analyzed" =>
        \A i \in 1..Len(bundleStats.modules) :
            LET p == bundleStats.modules[i].percentage
            IN  0 <= p.num /\ p.num <= 100 * p.den

AddFractions(a, b) == Fraction(a.num * b.den + b.num * a.den, a.den * b.den)

RECURSIVE SumPercentages(_)
SumPercentages(modules) ==
    IF Len(modules) = 0 THEN Zero
    ELSE IF Len(modules) = 1 THEN modules[1].percentage
    ELSE AddFractions(SumPercentages(SubSeq(modules, 1, Len(modules) \div 2)),
                      SumPercentages(SubSeq(modules, Len(modules) \div 2 + 1, Len(modules))))

ModuleSizeSum(modules) == SumSeq([i \in 1..Len(modules) |-> modules[i].size])

\* C6 (as stated): the module percentages sum to 100 whenever the total
\* size is greater than 0, and are all exactly 0 when the total size is 0.
C6_PercentagesSumTo100 ==
    pc = "analyzed" =>
        /\ bundleStats.size > 0 => SumPercentages(bundleStats.modules) = Fraction(100, 1)
        /\ bundleStats.size = 0 => \A i \in 1..Len(bundleStats.modules) :
                                        bundleStats.modules[i].percentage = Zero

\* C6 (amended): when the total size is greater than 0 the percentages sum
\* to 100 * (sum of the module sizes) / total, which is 100 exactly when the
\* module sizes add up to the total; when the total size is 0 every
\* percentage is exactly 0.
C6_PercentagesSumToShare ==
    pc = "analyzed" =>
        LET total == bundleStats.size
            sizes == ModuleSizeSum(bundleStats.modules)
            sum == SumPercentages(bundleStats.modules)
        IN  /\ total > 0 => sum.num * total = 100 * sizes * sum.den
            /\ (total > 0 /\ sizes = total) => sum = Fraction(100, 1)
            /\ total = 0 => \A i \in 1..Len(bundleStats.modules) :
                                bundleStats.modules[i].percentage = Zero

C6_Witness ==
    /\ pc = "analyzed"
    /\ Len(bundleStats.modules) = 2
    /\ bundleStats.modules[2].size > 0
    /\ ModuleSizeSum(bundleStats.modules) = bundleStats.size
    /\ SumPercentages(bundleStats.modules) = Fraction(100, 1)

RECURSIVE FirstNonZero(_)
FirstNonZero(s) == IF s = <<>> THEN 0 ELSE IF Head(s) # 0 THEN Head(s) ELSE FirstNonZero(Tail(s))

ClaimedTotalSize(d) ==
    FirstNonZero(<<SumSizes(OrEmpty(d.assets).items),
                   IF IsArray(d.modules) THEN SumSizes(d.modules.items) ELSE 0,
                   ModuleSizeSum(ChunkModules(d)),
                   SumSizes(OrEmpty(d.chunks).items)>>)

ClaimedTotalGzipSize(d) ==
    FirstNonZero(<<SumGzip(OrEmpty(d.assets).items),
                   IF IsArray(d.modules) THEN SumGzip(d.modules.items) ELSE 0,
                   SumGzip(ChunkModules(d)),
                   SumGzip(OrEmpty(d.chunks).items)>>)

\* C8: the reported total size is the first non-zero value among the sum of
\* the asset sizes, the sum of the top-level module sizes, the sum of the
\* deduplicated chunk module sizes and the sum of the chunk sizes; the total
\* gzip size follows the same chain over the gzip sizes.
C8_TotalIsFirstNonZero ==
    pc = "analyzed" =>
        /\ bundleStats.size = ClaimedTotalSize(statsFile)
        /\ bundleStats.gzipSize = ClaimedTotalGzipSize(statsFile)

\* what one entry of a chunk's modules array says about its module
OccurrenceName(m) == IF m.tag = "str" THEN m.name[1] ELSE NameOrUnknown(m.name)

OccurrenceSize(m) == OrZero(PropSize(m))

OccurrenceReasons(m) ==
    IF m.tag = "obj" THEN {MapReasons(m.reasons)[i] : i \in 1..Len(MapReasons(m.reasons))} ELSE {}

\* C9: when the module list is derived from the chunks, a name seen in
\* several chunk entries yields one canonical module with the maximum of the
\* occurrences' sizes (0 for a bare string), the maximum of their defined
\* gzip sizes, and the duplicate-free union of their reasons.  An absent
\* gzip size is not told apart from 0, nor a reason without a module name
\* from no reason.
C9_ChunkModulesMerged ==
    (pc = "analyzed" /\ ~HasTopLevelModules(statsFile)) =>
        LET entries == ChunkModuleEntries(OrEmpty(statsFile.chunks).items)
            modules == bundleStats.modules
        IN  \A n \in {OccurrenceName(entries[i]) : i \in 1..Len(entries)} :
                LET occ == {i \in 1..Len(entries) : OccurrenceName(entries[i]) = n}
                    at == {i \in 1..Len(modules) : modules[i].name = n}
                IN  Cardinality(occ) > 1 =>
                        /\ Cardinality(at) = 1
                        /\ \A i \in at :
                            /\ modules[i].size = SetMax({OccurrenceSize(entries[j]) : j \in occ})
                            /\ OrZero(modules[i].gzipSize) = SetMax({OrZero(PropGzip(entries[j])) : j \in occ})
                            /\ {modules[i].reasons[k] : k \in 1..Len(modules[i].reasons)} \ {""}
                                   = UNION {OccurrenceReasons(entries[j]) : j \in occ} \ {""}
                            /\ \A k, l \in 1..Len(modules[i].reasons) :
                                   modules[i].reasons[k] = modules[i].reasons[l] => k = l

\* C10: every canonical module has a non-empty name and a non-negative size.
C10_NameAndSizeWellFormed ==
    pc = "analyzed" =>
        \A i \in 1..Len(bundleStats.modules) :
            bundleStats.modules[i].name # "" /\ bundleStats.modules[i].size >= 0

\* C11: the canonical module list never holds two modules of the same name,
\* whether the names came from the top-level modules array or from the
\* chunks.
C11_ModuleNamesUnique ==
    pc = "analyzed" =>
        \A i, j \in 1..Len(bundleStats.modules) :
            bundleStats.modules[i].name = bundleStats.modules[j].name => i = j

\* the canonical modules in the order extraction met them
InputOrder(d) == IF HasTopLevelModules(d) THEN TopLevelModules(d.modules.items) ELSE ChunkModules(d)

\* a module without its percentage
Described(m) == [name |-> m.name, size |-> m.size, gzipSize |-> m.gzipSize, reasons |-> m.reasons]

\* the modules of one size, in the order of the list
OfSize(modules, v) ==
    LET at == Ascending({i \in 1..Len(modules) : modules[i].size = v})
    IN  [k \in 1..Len(at) |-> Described(modules[at[k]])]

SizesIn(modules) == {modules[i].size : i \in 1..Len(modules)}

\* C12: the output module list is in descending order of size, and the
\* modules of one size stand in the order they had in the input.
C12_SortedBySizeStable ==
    pc = "analyzed" =>
        LET sorted == bundleStats.modules
            input == Eager(InputOrder(statsFile))
        IN  /\ Len(sorted) = Len(input)
            /\ \A i \in 1..(Len(sorted) - 1) : sorted[i].size >= sorted[i + 1].size
            /\ \A v \in SizesIn(input) \cup SizesIn(sorted) : OfSize(sorted, v) = OfSize(input, v)

C12_Witness ==
    /\ pc = "analyzed"
    /\ LET sorted == bundleStats.modules
           input == Eager(InputOrder(statsFile))
       IN  /\ \E i \in 1..(Len(sorted) - 1) :
                  sorted[i].size = sorted[i + 1].size /\ sorted[i].name # sorted[i + 1].name
           /\ \E i \in 1..Len(sorted) : sorted[i].name # input[i].name

\* the key a module is grouped under when duplicates are looked for
DuplicateKey(m) == OrUnknown(extractPackageName(m.name))

\* the modules of one key, in the order of the list
WithKey(modules, keys, k) == Ascending({i \in 1..Len(modules) : keys[i] = k})

\* the groups that are to be reported: the keys that two or more modules of
\* two or more distinct names map to, each with its members
DuplicateGroups(modules) ==
    LET keys == Eager([i \in 1..Len(modules) |-> DuplicateKey(modules[i])])
        members(k) == WithKey(modules, keys, k)
        qualifying == {k \in {keys[i] : i \in 1..Len(keys)} :
                          /\ Len(members(k)) >= 2
                          /\ Cardinality({modules[members(k)[i]].name : i \in 1..Len(members(k))}) >= 2}
    IN  {[names |-> [i \in 1..Len(members(k)) |-> modules[members(k)[i]].name],
          totalSize |-> SumSeq([i \in 1..Len(members(k)) |-> modules[members(k)[i]].size]),
          savings |-> SumSeq([i \in 1..Len(members(k)) |-> modules[members(k)[i]].size])
                      - SetMin({modules[members(k)[i]].size : i \in 1..Len(members(k))})] :
         k \in qualifying}

\* out is the limit members of the set expected that have the largest
\* totalSize, largest first
LargestOf(out, expected, limit) ==
    /\ Len(out) = Min(Cardinality(expected), limit)
    /\ \A i \in 1..Len(out) : out[i] \in expected
    /\ \A i, j \in 1..Len(out) : out[i] = out[j] => i = j
    /\ \A i \in 1..(Len(out) - 1) : out[i].totalSize >= out[i + 1].totalSize
    /\ \A g \in expected :
           (\A i \in 1..Len(out) : out[i] # g) => g.totalSize <= out[Len(out)].totalSize

\* C13: findDuplicates reports a group for a key exactly when two or more
\* modules of two or more distinct names map to it, with totalSize the sum
\* of the members' sizes and savings that sum less the smallest member; the
\* output is the 10 groups of largest totalSize, largest first.
C13_DuplicateGroups ==
    pc = "analyzed" =>
        LargestOf(result[1].duplicates, DuplicateGroups(bundleStats.modules), 10)

C13_Witness ==
    /\ pc = "analyzed"
    /\ Len(result[1].duplicates) = 10
    /\ Cardinality(DuplicateGroups(bundleStats.modules)) = 11
    /\ result[1].duplicates[1].totalSize > result[1].duplicates[10].totalSize

\* the packages that are to be reported: one for every key a canonical
\* module has, a module without a key standing under no name
PackageGroups(stats) ==
    LET modules == stats.modules
        keys == Eager([i \in 1..Len(modules) |-> extractPackageName(modules[i].name)])
        members(k) == WithKey(modules, keys, k)
        total(k) == SumSeq([i \in 1..Len(members(k)) |-> modules[members(k)[i]].size])
    IN  {[name |-> k,
          totalSize |-> total(k),
          gzipSize |-> SumSeq([i \in 1..Len(members(k)) |-> OrZero(modules[members(k)[i]].gzipSize)]),
          moduleCount |-> Len(members(k)),
          modules |-> [i \in 1..Len(members(k)) |-> modules[members(k)[i]].name],
          percentage |-> IF stats.size > 0 THEN Fraction(total(k) * 100, stats.size)
                         ELSE IF stats.size < 0 THEN Fraction(-(total(k) * 100), -stats.size)
                         ELSE Zero] :
         k \in {keys[i] : i \in 1..Len(keys)}}

\* a reported package written as the claim describes one: under its name as
\* key, an absent gzip size read as the sum 0
AsPackageGroup(p) == [p EXCEPT !.name = Some(p.name), !.gzipSize = OrZero(p.gzipSize)]

\* C14: analyzePackages groups every canonical module under its
\* extractPackageName key, with totalSize the sum of the members' sizes,
\* moduleCount their number, gzipSize the sum of their defined gzip sizes
\* and percentage totalSize / bundle size * 100 (0 when the bundle size is
\* 0); the output is the 20 packages of largest totalSize, largest first,
\* and the lodash/react example gives lodash 7000 over 2 modules.
C14_PackagesGrouped ==
    pc = "analyzed" =>
        /\ LargestOf([i \in 1..Len(result[1].packages) |-> AsPackageGroup(result[1].packages[i])],
                     PackageGroups(bundleStats), 20)
        /\ statsFile = PackagesExample =>
               /\ result[1].packages[1].name = "lodash"
               /\ result[1].packages[1].totalSize = 7000
               /\ result[1].packages[1].moduleCount = 2

\* the last index of the run of parts outside Seps that starts at k
PartRunEnd(parts, k, Seps) ==
    LET stops == {j \in k..Len(parts) : parts[j] \in Seps}
    IN  IF stops = {} THEN Len(parts) ELSE SetMin(stops) - 1

\* the places where the path reads node_modules, a separator, a package
PackageSegments(parts) ==
    {i \in 1..(Len(parts) - 2) :
        parts[i] = "node_modules" /\ IsSlash(parts[i + 1]) /\ ~IsSlash(parts[i + 2])}

\* the package named at such a place: <pkg>, or @scope/<pkg> when the
\* segment is a scope that a separator and a further segment follow
PackageIdentifier(parts, i) ==
    LET e == PartRunEnd(parts, i + 2, {"/", "\\"})
        pkg == Join(SubSeq(parts, i + 2, e))
    IN  IF parts[i + 2] = "@s" /\ e + 2 <= Len(parts) /\ ~IsSlash(parts[e + 2])
        THEN pkg \o "/" \o Join(SubSeq(parts, e + 2, PartRunEnd(parts, e + 2, {"/", "\\"})))
        ELSE pkg

\* the last segment of the path that is not empty, "" if there is none
FinalSegment(parts) ==
    LET named == {i \in 1..Len(parts) : parts[i] \notin PathSeparators}
        breaks == {j \in 1..SetMax(named) : parts[j] \in PathSeparators}
    IN  IF named = {} THEN ""
        ELSE Join(SubSeq(parts, IF breaks = {} THEN 1 ELSE SetMax(breaks) + 1, SetMax(named)))

\* C15: for a path with a node_modules/<pkg> or node_modules/@scope/<pkg>
\* segment, written with / or \, extractPackageName returns the package
\* identifier with the scope kept and the separators written as /; for any
\* other non-empty path it returns the final segment, as the platform
\* splits paths; it returns null only for the empty path.
C15_PackageNameOfPath ==
    pc = "extracted" =>
        /\ packageName = None <=> modulePath = <<>>
        /\ PackageSegments(modulePath) # {} =>
               \E i \in PackageSegments(modulePath) :
                   packageName = Some(PackageIdentifier(modulePath, i))
        /\ (PackageSegments(modulePath) = {} /\ modulePath # <<>>) =>
               packageName = Some(FinalSegment(modulePath))

C15_Witness ==
    /\ pc = "extracted"
    /\ modulePath = <<"node_modules", "\\", "@s", "\\", "p">>
    /\ packageName = Some("@s/p")

\* the sum of the sizes of the input chunks whose initial flag is true
InitialSizeSum(d) ==
    LET chunks == OrEmpty(d.chunks).items
        initial == Ascending({i \in 1..Len(chunks) : chunks[i].initial = Some(TRUE)})
    IN  SumSeq([k \in 1..Len(initial) |-> OrZero(chunks[initial[k]].size)])

chunkAnalysis == result[1].chunkAnalysis

Advised(about) == \E i \in 1..Len(chunkAnalysis.recommendations) : chunkAnalysis.recommendations[i] = about

\* C16: chunkAnalysis.initialChunkSize is the sum of the sizes of the chunks
\* whose input initial flag is true, the same value as
\* bundleStats.isInitialBySize, and the initial-chunk advisory is given
\* exactly when that sum exceeds 500,000 bytes.
C16_InitialChunkSize ==
    pc = "analyzed" =>
        /\ chunkAnalysis.initialChunkSize = InitialSizeSum(statsFile)
        /\ chunkAnalysis.initialChunkSize = bundleStats.isInitialBySize
        /\ Advised("Initial chunk") <=> InitialSizeSum(statsFile) > 500000

\* C17: bundleStats.isInitialBySize is the sum of the sizes of exactly the
\* input chunks whose initial field is true, a missing size counting as 0
\* and chunks whose initial is false or absent adding nothing.
C17_InitialBySize ==
    pc = "analyzed" =>
        LET chunks == OrEmpty(statsFile.chunks).items
            counted == {i \in 1..Len(chunks) : chunks[i].initial = Some(TRUE)}
            sized == {i \in counted : chunks[i].size # None}
        IN  bundleStats.isInitialBySize
                = SumSeq([k \in 1..Cardinality(sized) |-> chunks[Ascending(sized)[k]].size[1]])

C17_Witness ==
    /\ pc = "analyzed"
    /\ LET chunks == OrEmpty(statsFile.chunks).items
       IN  /\ Len(chunks) = 2
           /\ chunks[1].initial = Some(TRUE) /\ chunks[1].size = Some(11)
           /\ chunks[2].initial = None /\ chunks[2].size = Some(10)
    /\ bundleStats.isInitialBySize = 11

\* the result for a bundle without chunks
ZeroChunkAnalysis ==
    [averageChunkSize |-> Zero, averageModulesPerChunk |-> Zero,
     largestChunk |-> NoChunk, smallestChunk |-> NoChunk,
     initialChunkSize |-> 0, recommendations |-> <<>>]

ChunkSizesOf(stats) == {stats.chunks[i].size : i \in 1..Len(stats.chunks)}

\* C18: without chunks analyzeChunks returns the zero-valued result with no
\* recommendations; the chunk-imbalance advisory is never given when the
\* smallest chunk's size is 0, and when that size is positive it is given
\* exactly when the largest size exceeds 10 times the smallest.
C18_ChunkImbalance ==
    pc = "analyzed" =>
        /\ bundleStats.chunks = <<>> => chunkAnalysis = ZeroChunkAnalysis
        /\ bundleStats.chunks # <<>> =>
               LET smallest == SetMin(ChunkSizesOf(bundleStats))
                   largest == SetMax(ChunkSizesOf(bundleStats))
               IN  /\ smallest = 0 => ~Advised("Chunk size imbalance")
                   /\ smallest > 0 => (Advised("Chunk size imbalance") <=> largest > 10 * smallest)

C18_Witness ==
    /\ pc = "analyzed"
    /\ Len(bundleStats.chunks) = 2
    /\ SetMin(ChunkSizesOf(bundleStats)) = 0
    /\ SetMax(ChunkSizesOf(bundleStats)) = 11
    /\ ~Advised("Chunk size imbalance")

\* the recommendations the rules call for, in the order of the rules
RulesFired(stats, duplicates) ==
    (IF stats.gzipSize > 500000 THEN <<Recommendation("critical", "Bundle size")>>
     ELSE IF stats.gzipSize > 250000 THEN <<Recommendation("warning", "Bundle size")>>
     ELSE <<>>)
    \o (IF \E i \in 1..Len(stats.modules) :
               stats.modules[i].percentage.num > 5 * stats.modules[i].percentage.den
        THEN <<Recommendation("warning", "Large modules")>> ELSE <<>>)
    \o (IF Len(duplicates) >= 1 THEN <<Recommendation("warning", "Duplicate modules")>> ELSE <<>>)
    \o (IF Len(stats.modules) > 500 THEN <<Recommendation("info", "High module count")>> ELSE <<>>)

\* C19: generateRecommendations returns, in this order, a critical exactly
\* when the total gzip size exceeds 500,000 and otherwise a gzip warning
\* exactly when it exceeds 250,000, a warning exactly when some module has a
\* percentage above 5, a warning exactly when there is a duplicate group,
\* and an info exactly when there are more than 500 modules; the two gzip
\* recommendations never appear together.
C19_Recommendations ==
    pc = "analyzed" =>
        /\ result[1].recommendations = RulesFired(bundleStats, result[1].duplicates)
        /\ Cardinality({i \in 1..Len(result[1].recommendations) :
                           result[1].recommendations[i].about = "Bundle size"}) <= 1

C19_Witness ==
    /\ pc = "analyzed"
    /\ bundleStats.gzipSize = 500001
    /\ result[1].recommendations = <<Recommendation("critical", "Bundle size"),
                                     Recommendation("warning", "Large modules"),
                                     Recommendation("warning", "Duplicate modules")>>

\* the tokens of a reason: its runs of characters that are not spaces
Tokens(r) ==
    {SubSeq(r, i, RunEnd(r, i, {" ", "\t"})) :
        i \in {k \in 1..Len(r) : ~IsSpace(Char(r, k)) /\ (k = 1 \/ IsSpace(Char(r, k - 1)))}}

EndsIn(t, ext) == Len(t) > Len(ext) /\ SubSeq(t, Len(t) - Len(ext) + 1, Len(t)) = ext

\* the file-like tokens found in the modules' reasons, the reasons `entry`
\* and `cjs require` left aside
ReferencedSet(modules) ==
    LET reasons == UNION {{modules[i].reasons[k] : k \in 1..Len(modules[i].reasons)} : i \in 1..Len(modules)}
    IN  UNION {{t \in Tokens(r) : \E ext \in {".js", ".ts", ".jsx", ".tsx"} : EndsIn(t, ext)} :
               r \in reasons \ {"entry", "cjs require"}}

\* the modules that are to be flagged, in canonical (size-descending) order
ToBeFlagged(stats) ==
    LET referenced == ReferencedSet(stats.modules)
        flagged == Ascending({k \in 1..Len(stats.modules) :
                      /\ \A j \in 1..Len(stats.modules[k].reasons) : ~IncludesEntry(stats.modules[k].reasons[j])
                      /\ stats.modules[k].name \notin referenced
                      /\ stats.modules[k].size > 0
                      /\ inChunk(stats, stats.modules[k])})
    IN  [k \in 1..Len(flagged) |->
            [name |-> stats.modules[flagged[k]].name, size |-> stats.modules[flagged[k]].size]]

\* C20: detectUnusedModules flags a canonical module exactly when none of
\* its reasons equals or contains `entry`, its name is not in the referenced
\* set, its size is above 0 and its name is in some chunk's module list; the
\* output is the 20 largest flagged modules, largest first.
C20_UnusedModulesFlagged ==
    pc = "analyzed" => result[1].unusedModules = Take(ToBeFlagged(bundleStats), 20)

\* the diagnostics the input calls for: the modules array in canonical order
\* (stable, largest size first), each entry with its own source text
CommonJSModules(d) ==
    LET items == d.modules.items
        sorted == StableSortDesc(items, [i \in 1..Len(items) |-> OrZero(PropSize(items[i]))])
        at == Ascending({i \in 1..Len(sorted) : UsesCommonJS(sorted[i])})
    IN  [k \in 1..Len(at) |-> NameOrUnknown(PropName(sorted[at[k]]))]

DiagnosticOf(name) == name \o ": Uses CommonJS - reduces tree-shaking effectiveness"

\* C21: there is one diagnostic for each canonical module whose own entry in
\* the top-level modules array has a source text containing module.exports or
\* require(, for the first 10 of them in canonical order; nothing is emitted
\* when the module list comes from the chunks.
C21_TreeshakingIssues ==
    pc = "analyzed" =>
        LET issues == result[1].treeshakingIssues
            expected == IF HasTopLevelModules(statsData)
                        THEN Take(CommonJSModules(statsData), 10) ELSE <<>>
        IN  /\ Len(issues) = Len(expected)
            /\ \A i \in 1..Len(issues) : issues[i] = DiagnosticOf(expected[i])

metrics == result[1].metrics

\* the nearest whole number to gzip * 0.83, a half rounded up
IsRounded83(b, gzip) == -50 < 100 * b - 83 * gzip /\ 100 * b - 83 * gzip <= 50

\* all of the claim but the Brotli estimate
MetricsOtherThanBrotli ==
    LET modules == bundleStats.modules
    IN  /\ metrics.totalSize = bundleStats.size
        /\ metrics.totalGzipSize = bundleStats.gzipSize
        /\ metrics.moduleCount = Len(modules)
        /\ metrics.chunkCount = Len(bundleStats.chunks)
        /\ IF modules = <<>>
           THEN /\ metrics.largestModule.name = "N/A"
                /\ metrics.largestModule.size = 0
                /\ metrics.averageModuleSize = Zero
           ELSE /\ metrics.largestModule = modules[1]
                /\ \A i \in 1..Len(modules) : metrics.largestModule.size >= modules[i].size
                /\ metrics.averageModuleSize.den > 0
                /\ metrics.averageModuleSize.num * Len(modules)
                       = ModuleSizeSum(modules) * metrics.averageModuleSize.den

\* C22 as stated: the totals, counts, largest module and average are those of
\* the bundle, and the Brotli estimate is round(gzip * 0.83) when the gzip
\* total is non-zero and absent otherwise.
C22_MetricsBrotliWhenNonZero ==
    pc = "analyzed" =>
        /\ MetricsOtherThanBrotli
        /\ IF metrics.totalGzipSize # 0
           THEN /\ metrics.totalBrotliSize # None
                /\ IsRounded83(metrics.totalBrotliSize[1], metrics.totalGzipSize)
           ELSE metrics.totalBrotliSize = None

\* C22 as amended: the same, with the Brotli estimate present when the gzip
\* total is greater than zero and absent otherwise.
C22_MetricsBrotliWhenPositive ==
    pc = "analyzed" =>
        /\ MetricsOtherThanBrotli
        /\ IF metrics.totalGzipSize > 0
           THEN /\ metrics.totalBrotliSize # None
                /\ IsRounded83(metrics.totalBrotliSize[1], metrics.totalGzipSize)
           ELSE metrics.totalBrotliSize = None

\* a gzip total of 50 bytes, whose estimate 41.5 is rounded up to 42, over
\* two modules of different sizes
C22_Witness ==
    /\ pc = "analyzed"
    /\ metrics.totalGzipSize = 50
    /\ metrics.totalBrotliSize = Some(42)
    /\ metrics.moduleCount = 2
    /\ metrics.largestModule.size > bundleStats.modules[2].size
    /\ metrics.averageModuleSize = Fraction(3, 2)

\* two results agree in every field but the timestamp
SameButTimestamp(r1, r2) == [r1 EXCEPT !.timestamp = 0] = [r2 EXCEPT !.timestamp = 0]

NoCallInProgress == \A p \in Procs : saving[p] = None

\* C24: after any sequence of calls that do not overlap the log holds at
\* most 100 entries, the newest saved entry is last, and the log is the most
\* recent min(n, 100) saved entries in the order they were saved.
C24_HistoryCapped ==
    (pc = "history" /\ NoCallInProgress /\ saved.calls > 0) =>
        LET log == historyFile.entries
            n == Len(saved.entries)
        IN  /\ historyFile.kind = "json"
            /\ n = saved.calls
            /\ Len(log) <= 100
            /\ Len(log) = Min(n, 100)
            /\ log[Len(log)] = saved.entries[n]
            /\ \A i \in 1..Len(log) : log[i] = saved.entries[n - Len(log) + i]
            /\ \A i \in 1..Len(log) : log[i].timestamp = n - Len(log) + i

\* more than 100 entries were saved and the oldest have been dropped
C24_Witness ==
    /\ pc = "history"
    /\ NoCallInProgress
    /\ saved.calls = 102
    /\ Len(historyFile.entries) = 100
    /\ historyFile.entries[1].timestamp = 3
    /\ historyFile.entries[100].timestamp = 102

\* C25: saveHistoryEntry reads the whole log and later writes the whole log,
\* without a lock: when two calls have both loaded the log before either
\* writes, only the entry of the one that writes last is in the final log,
\* and when no call began while another was in progress every saved entry
\* is in the log.
C25_LostUpdateOnlyWhenInterleaved ==
    (pc = "history" /\ NoCallInProgress) =>
        /\ ~saved.overlapped => historyFile.entries = saved.entries
        /\ (saved.overlapped /\ saved.calls = 2) =>
               historyFile.entries = <<saved.entries[2]>>

\* two calls were made and have returned, and the log holds one entry
C25_Witness ==
    /\ pc = "history"
    /\ NoCallInProgress
    /\ saved.overlapped
    /\ saved.calls = 2
    /\ Len(saved.entries) = 2
    /\ Len(historyFile.entries) = 1
    /\ historyFile.entries[1] # saved.entries[1]

MergedKeys == {"maxGzipSize", "maxInitialSize", "largeModuleThreshold", "output", "baseline",
               "format"}

\* C30: for each of maxGzipSize, maxInitialSize, largeModuleThreshold,
\* output, baseline and format, the merged value is the value given on the
\* command line whenever the user gave one, a threshold of 0 and a
\* largeModuleThreshold of 5 included.
C30_CommandLineWins ==
    (pc = "cli" /\ cli.step = "merged") =>
        \A k \in MergedKeys : cli.given[k] # None => cli.options[1][k] = cli.given[k]

\* the run is over and both analyses it was to make succeeded
CliAnalysed ==
    /\ pc = "cli"
    /\ cli.step = "exited"
    /\ cli.result # None
    /\ TruthyText(cli.options[1].baseline) => cli.baselineResult # None

\* C26: when a maximum gzip size or a maximum initial size is set and the
\* analysed bundle exceeds it, the command exits with 2 for the gzip size,
\* with 3 for the initial size or for both, whatever the other options are.
C26_BudgetExitCode ==
    CliAnalysed =>
        LET options == cli.options[1]
            r == cli.result[1]
            gzip == ExceedsMb(r.metrics.totalGzipSize, options.maxGzipSize)
            initial == ExceedsMb(r.bundleStats.isInitialBySize, options.maxInitialSize)
        IN  /\ initial => cli.exit = Some(3)
            /\ (gzip /\ ~initial) => cli.exit = Some(2)

\* C28: if loading or analysing the stats file or the baseline fails, the
\* run writes no report, no dependency graph and no history entry and exits
\* with status 1; whatever is written is written after the main analysis
\* and, where a baseline is set, the baseline analysis have completed.
C28_NothingWrittenOnFailure ==
    pc = "cli" =>
        /\ (cli.step # "start" /\ (cli.written # <<>> \/ historyFile # HistoryAbsent)) =>
               /\ cli.result # None
               /\ TruthyText(cli.options[1].baseline) => cli.baselineResult # None
        /\ (cli.step = "exited" /\ ~CliAnalysed) =>
               /\ cli.exit = Some(1)
               /\ cli.written = <<>>
               /\ historyFile = HistoryAbsent
               /\ saved.entries = <<>>

\* a run whose baseline could not be analysed after the main analysis had
\* succeeded, with a report, a graph and the history asked for
C28_Witness ==
    /\ pc = "cli"
    /\ cli.step = "exited"
    /\ cli.result # None
    /\ TruthyText(cli.options[1].baseline)
    /\ cli.baselineResult = None
    /\ cli.options[1].html
    /\ ~cli.options[1].json
    /\ cli.options[1].dependencyGraph # None
    /\ cli.writable
    /\ cli.exit = Some(1)

\* C27: the constructor fails with the parse error ("Invalid JSON in stats
\* file") exactly when the content of the file is not valid JSON; a file
\* whose content parses never gives it.
C27_ParseErrorIffNotJSON ==
    (pc \in {"failed", "loaded"} /\ statsFile.json # "missing") =>
        (ErrorKind(error) = "ParseError" <=> statsFile.json = "invalid")

CanonicalNames == {bundleStats.modules[i].name : i \in 1..Len(bundleStats.modules)}

\* C29: every entry of every chunk's modules list in the result is a string,
\* and it is the name of a canonical module whenever the module list is
\* derived from the chunks, for a nested module given as a bare name and for
\* one given as an object, with or without a name.
C29_ChunkModulesAreNames ==
    pc = "analyzed" =>
        \A c \in 1..Len(bundleStats.chunks) :
            \A j \in 1..Len(bundleStats.chunks[c].modules) :
                LET entry == bundleStats.chunks[c].modules[j]
                IN  /\ entry # None
                    /\ ~HasTopLevelModules(statsData) => entry[1] \in CanonicalNames

====
